---- MODULE Spec2Model ----
(***************************************************************************)
(* Textbook-Indexer: the consolidation of the per-chunk analysis results   *)
(* (src/services/geminiService.ts, mergeAnalysisResults) as driven by the  *)
(* analysis loop of src/App.tsx (handleProcess), and the composite PDF of  *)
(* src/components/ResultsView.tsx (generateCompositePdf).                  *)
(*                                                                         *)
(* JavaScript strings are sequences of one-character strings.  A value of  *)
(* type `number | string` (a page number) is a record that carries its     *)
(* runtime type: Num(n) or Str(s).  The alphabet is ASCII: the 26 letters  *)
(* in both cases, the digits, the space and the punctuation "(" ")" "-",   *)
(* and, for the text drawn into the PDF, "," "." "'" and a few characters  *)
(* outside ASCII, which are written by code point ("U+2013").              *)
(***************************************************************************)
EXTENDS Integers, Sequences, FiniteSets, TLC

VARIABLES
    \* src/App.tsx
    view, status, totalUnits, processedUnits, results,
    usePrintedPageNumbers, currentFile,
    \* handleProcess: the batches pushed so far and, for each, whether the
    \* extraction call behind it failed
    partialResults, callFailed,
    \* handleProcess: usePrintedPageNumbers as the callback of this run has it,
    \* the locals content and chunks, and the calls of analyzeChunk made
    runMode, content, chunks, calls,
    \* src/components/ResultsView.tsx
    isGeneratingPdf,
    \* generateCompositePdf: where the call stands, its locals tocPageCount and
    \* newPdf (the pages of the document), what has been drawn on the pages
    \* (index entries, outline lines, page numbers), the link annotations, and
    \* what the user got from this call
    pc, tocPageCount, newPdf, placed, tocLines, numbers, links, alerts, downloads

runVars == <<runMode, content, chunks, calls>>

appVars ==
    <<view, status, totalUnits, processedUnits, results, usePrintedPageNumbers,
      currentFile, partialResults, callFailed, runVars>>

pdfVars ==
    <<isGeneratingPdf, pc, tocPageCount, newPdf, placed, tocLines, numbers, links,
      alerts, downloads>>

vars == <<appVars, pdfVars>>

-----------------------------------------------------------------------------
(* Characters *)

LowerChars == <<"a","b","c","d","e","f","g","h","i","j","k","l","m",
                "n","o","p","q","r","s","t","u","v","w","x","y","z">>

UpperChars == <<"A","B","C","D","E","F","G","H","I","J","K","L","M",
                "N","O","P","Q","R","S","T","U","V","W","X","Y","Z">>

DigitChars == <<"0","1","2","3","4","5","6","7","8","9">>

\* Punctuation in the order of the CLDR root collation.
PunctChars == <<"-","(",")">>

IndexIn(c, chars) == CHOOSE i \in 1..Len(chars) : chars[i] = c

IsIn(c, chars) == \E i \in 1..Len(chars) : chars[i] = c

IsDigit(c) == IsIn(c, DigitChars)

IsSpace(c) == c = " "

DigitVal(c) == IndexIn(c, DigitChars) - 1

ToLowerChar(c) == IF IsIn(c, UpperChars) THEN LowerChars[IndexIn(c, UpperChars)] ELSE c

ToUpperChar(c) == IF IsIn(c, LowerChars) THEN UpperChars[IndexIn(c, LowerChars)] ELSE c

-----------------------------------------------------------------------------
(* Strings *)

toLowerCase(s) == [i \in 1..Len(s) |-> ToLowerChar(s[i])]

toUpperCase(s) == [i \in 1..Len(s) |-> ToUpperChar(s[i])]

RECURSIVE TrimStart(_)
TrimStart(s) == IF s # <<>> /\ IsSpace(Head(s)) THEN TrimStart(Tail(s)) ELSE s

RECURSIVE TrimEnd(_)
TrimEnd(s) ==
    IF s # <<>> /\ IsSpace(s[Len(s)]) THEN TrimEnd(SubSeq(s, 1, Len(s) - 1)) ELSE s

trim(s) == TrimEnd(TrimStart(s))

\* Number.prototype.toString for a non-negative integer.
RECURSIVE NumToString(_)
NumToString(n) ==
    IF n < 10 THEN <<DigitChars[n + 1]>>
    ELSE NumToString(n \div 10) \o <<DigitChars[(n % 10) + 1]>>

Num(n) == [isNum |-> TRUE, n |-> n, s |-> <<>>]

Str(s) == [isNum |-> FALSE, n |-> 0, s |-> s]

\* String(p) for p : number | string.
String(p) == IF p.isNum THEN NumToString(p.n) ELSE p.s

\* The value of the longest run of digits at the head of s (0 for none).
RECURSIVE DigitRunValue(_, _)
DigitRunValue(s, acc) ==
    IF s # <<>> /\ IsDigit(Head(s))
    THEN DigitRunValue(Tail(s), acc * 10 + DigitVal(Head(s)))
    ELSE acc

\* A parsed number is <<n>>; NaN is <<>>.
NaN == <<>>

isNaN(r) == r = <<>>

\* parseInt(s): leading white space and one sign are skipped, then the
\* digits up to the first non-digit are read; NaN when there is no digit.
\* (The hexadecimal prefix 0x is not modelled: no page reference has one.)
parseInt(s) ==
    LET t == TrimStart(s)
        neg == t # <<>> /\ Head(t) = "-"
        u == IF neg THEN Tail(t) ELSE t
    IN  IF u = <<>> \/ ~IsDigit(Head(u)) THEN NaN
        ELSE IF neg THEN <<0 - DigitRunValue(u, 0)>> ELSE <<DigitRunValue(u, 0)>>

\* String(p).match(/(\d+)/): the first run of digits of s, parsed.
RECURSIVE FirstDigitRun(_)
FirstDigitRun(s) ==
    IF s = <<>> THEN NaN
    ELSE IF IsDigit(Head(s)) THEN <<DigitRunValue(s, 0)>>
    ELSE FirstDigitRun(Tail(s))

-----------------------------------------------------------------------------
(* String.prototype.localeCompare: the CLDR root collation on the alphabet. *)
(* Primary weights: white space < punctuation < digits < letters, a letter *)
(* and its capital share a weight.  Strings are compared on the primary    *)
(* weights first; when these are equal throughout, the first position at   *)
(* which the case differs decides, lower case first.                       *)

PrimaryWeight(c) ==
    IF IsSpace(c) THEN 0
    ELSE IF IsIn(c, PunctChars) THEN IndexIn(c, PunctChars)
    ELSE IF IsDigit(c) THEN 10 + DigitVal(c)
    ELSE 20 + IndexIn(ToLowerChar(c), LowerChars)

RECURSIVE PrimaryCompare(_, _)
PrimaryCompare(a, b) ==
    IF a = <<>> /\ b = <<>> THEN 0
    ELSE IF a = <<>> THEN -1
    ELSE IF b = <<>> THEN 1
    ELSE IF PrimaryWeight(Head(a)) < PrimaryWeight(Head(b)) THEN -1
    ELSE IF PrimaryWeight(Head(a)) > PrimaryWeight(Head(b)) THEN 1
    ELSE PrimaryCompare(Tail(a), Tail(b))

\* Called on strings with equal primary weights, hence of equal length.
RECURSIVE TertiaryCompare(_, _)
TertiaryCompare(a, b) ==
    IF a = <<>> \/ b = <<>> THEN 0
    ELSE IF Head(a) = Head(b) THEN TertiaryCompare(Tail(a), Tail(b))
    ELSE IF IsIn(Head(a), LowerChars) THEN -1
    ELSE 1

\* a.localeCompare(b)
localeCompare(a, b) ==
    LET p == PrimaryCompare(a, b)
    IN  IF p # 0 THEN p ELSE TertiaryCompare(a, b)

\* a.localeCompare(b, undefined, { sensitivity: 'base' })
localeCompareBase(a, b) == PrimaryCompare(a, b)

-----------------------------------------------------------------------------
(* mergeAnalysisResults, part 1: the table of contents *)

\* results.flatMap(r => r.toc)
RECURSIVE FlatToc(_)
FlatToc(rs) == IF rs = <<>> THEN <<>> ELSE Head(rs).toc \o FlatToc(Tail(rs))

\* The key of the earlier version of the merge (the copy kept in
\* src/types.ts): `${entry.pageNumber}-${entry.level}-${normalizedTitle}`.
TocKeyWithPage(entry) ==
    String(entry.pageNumber) \o <<"-">> \o NumToString(entry.level) \o <<"-">>
        \o trim(entry.title)

\* A key that follows the policy by level: level and title for the entries
\* of level 1, the page number as well for the deeper ones.
TocKeyByLevel(entry) ==
    IF entry.level > 1
    THEN String(entry.pageNumber) \o <<"-">> \o NumToString(entry.level) \o <<"-">>
            \o toLowerCase(trim(entry.title))
    ELSE NumToString(entry.level) \o <<"-">> \o toLowerCase(trim(entry.title))

\* `${entry.level}-${normalizedTitle.toLowerCase()}`
TocKey(entry) ==
    NumToString(entry.level) \o <<"-">> \o toLowerCase(trim(entry.title))

\* The values of tocMap in insertion order: an entry is set only when its
\* key is not present yet.
RECURSIVE TocMapValues(_, _)
TocMapValues(all, kept) ==
    IF all = <<>> THEN kept
    ELSE IF \E i \in 1..Len(kept) : TocKey(kept[i]) = TocKey(Head(all))
         THEN TocMapValues(Tail(all), kept)
         ELSE TocMapValues(Tail(all), Append(kept, Head(all)))

getPageNum(p) == FirstDigitRun(String(p))

\* A comparator that never answers 0: numA > numB ? 1 : -1.
TocPageCompareNoTie(pa, pb) ==
    LET numA == getPageNum(pa)
        numB == getPageNum(pb)
    IN  IF ~isNaN(numA) /\ ~isNaN(numB) /\ numA[1] > numB[1] THEN 1 ELSE -1

\* The comparator of the ToC sort, on the two page numbers.
TocPageCompare(pa, pb) ==
    LET numA == getPageNum(pa)
        numB == getPageNum(pb)
    IN  IF ~isNaN(numA) /\ ~isNaN(numB) /\ numA # numB
        THEN numA[1] - numB[1]
        ELSE localeCompare(String(pa), String(pb))

TocCompare(a, b) == TocPageCompare(a.pageNumber, b.pageNumber)

-----------------------------------------------------------------------------
(* mergeAnalysisResults, part 2: the index *)

\* results.flatMap(r => r.index)
RECURSIVE FlatIndex(_)
FlatIndex(rs) == IF rs = <<>> THEN <<>> ELSE Head(rs).index \o FlatIndex(Tail(rs))

\* record.termVariants.set(rawTerm, (record.termVariants.get(rawTerm) || 0) + 1)
\* A Map is the sequence of its <<key, value>> pairs in insertion order.
CountVariant(termVariants, rawTerm) ==
    IF \E i \in 1..Len(termVariants) : termVariants[i][1] = rawTerm
    THEN [i \in 1..Len(termVariants) |->
            IF termVariants[i][1] = rawTerm
            THEN <<rawTerm, termVariants[i][2] + 1>>
            ELSE termVariants[i]]
    ELSE Append(termVariants, <<rawTerm, 1>>)

\* The page numbers pushed to an array instead of added to a Set.
RECURSIVE AddPagesNoSet(_, _)
AddPagesNoSet(pageSet, pageNumbers) ==
    IF pageNumbers = <<>> THEN pageSet
    ELSE AddPagesNoSet(Append(pageSet, String(Head(pageNumbers))), Tail(pageNumbers))

\* entry.pageNumbers.forEach(p => record.pageNumbers.add(String(p)))
\* A Set is the sequence of its elements in insertion order.
RECURSIVE AddPages(_, _)
AddPages(pageSet, pageNumbers) ==
    IF pageNumbers = <<>> THEN pageSet
    ELSE LET p == String(Head(pageNumbers))
         IN  IF \E i \in 1..Len(pageSet) : pageSet[i] = p
             THEN AddPages(pageSet, Tail(pageNumbers))
             ELSE AddPages(Append(pageSet, p), Tail(pageNumbers))

\* Grouping on the term as written.
IndexKeyRaw(rawTerm) == rawTerm

\* const key = rawTerm.toLowerCase()
IndexKey(rawTerm) == toLowerCase(rawTerm)

\* The body of the forEach without `if (!rawTerm) return`.
AddIndexEntryKeepsEmpty(indexMap, entry) ==
    LET rawTerm == trim(entry.term)
        key == IndexKey(rawTerm)
        withKey == IF \E i \in 1..Len(indexMap) : indexMap[i].key = key
                   THEN indexMap
                   ELSE Append(indexMap,
                               [key |-> key, termVariants |-> <<>>, pageNumbers |-> <<>>])
    IN  [i \in 1..Len(withKey) |->
            IF withKey[i].key = key
            THEN [key |-> key,
                  termVariants |-> CountVariant(withKey[i].termVariants, rawTerm),
                  pageNumbers |-> AddPages(withKey[i].pageNumbers, entry.pageNumbers)]
            ELSE withKey[i]]

\* The body of the forEach over the flattened index entries: indexMap after
\* one more entry.  indexMap is the sequence of its records in insertion
\* order, each with its key.
AddIndexEntry(indexMap, entry) ==
    LET rawTerm == trim(entry.term)
        key == IndexKey(rawTerm)
        withKey == IF \E i \in 1..Len(indexMap) : indexMap[i].key = key
                   THEN indexMap
                   ELSE Append(indexMap,
                               [key |-> key, termVariants |-> <<>>, pageNumbers |-> <<>>])
    IN  IF rawTerm = <<>> THEN indexMap
        ELSE [i \in 1..Len(withKey) |->
                IF withKey[i].key = key
                THEN [key |-> key,
                      termVariants |-> CountVariant(withKey[i].termVariants, rawTerm),
                      pageNumbers |-> AddPages(withKey[i].pageNumbers, entry.pageNumbers)]
                ELSE withKey[i]]

\* The forEach: indexMap after a turn is a value when the next turn starts.
RECURSIVE BuildIndexMap(_, _)
BuildIndexMap(entries, indexMap) ==
    IF entries = <<>> THEN indexMap
    ELSE LET next == AddIndexEntry(indexMap, Head(entries))
         IN  CASE Len(next) \in Nat -> BuildIndexMap(Tail(entries), next)

\* The tie-breaker applied whatever the counts.
BestTermStepAnyCount(best, variant, count) ==
    IF count > best[2] THEN <<variant, count>>
    ELSE IF variant[1] = ToUpperChar(variant[1])
         THEN <<variant, best[2]>>
         ELSE best

\* No tie-breaker: the first of the most frequent variants stays.
BestTermStepNoTie(best, variant, count) ==
    IF count > best[2] THEN <<variant, count>> ELSE best

\* One step of record.termVariants.forEach: best is <<bestTerm, maxCount>>.
BestTermStep(best, variant, count) ==
    IF count > best[2] THEN <<variant, count>>
    ELSE IF count = best[2] /\ variant[1] = ToUpperChar(variant[1])
         THEN <<variant, best[2]>>
         ELSE best

RECURSIVE BestTermFold(_, _)
BestTermFold(termVariants, best) ==
    IF termVariants = <<>> THEN best
    ELSE BestTermFold(Tail(termVariants),
                      BestTermStep(best, Head(termVariants)[1], Head(termVariants)[2]))

\* let bestTerm = ""; let maxCount = -1; record.termVariants.forEach(...)
BestTerm(termVariants) == BestTermFold(termVariants, <<<<>>, -1>>)[1]

\* The comparator of the sort of one entry's page numbers.
IndexPageCompare(a, b) ==
    LET nA == parseInt(a)
        nB == parseInt(b)
    IN  IF ~isNaN(nA) /\ ~isNaN(nB) THEN nA[1] - nB[1]
        ELSE localeCompare(a, b)

\* The comparator of the final alphabetical sort.
IndexCompare(a, b) == localeCompareBase(a.term, b.term)

-----------------------------------------------------------------------------
(* Array.prototype.sort(comparefn) as V8 runs it on an array of fewer than *)
(* 64 elements: the run at the head of the array is counted (and reversed  *)
(* when it is strictly descending), then every later element is placed in  *)
(* the sorted prefix by binary insertion.  Indices are 0-based as in V8.   *)

Reverse(s) == [i \in 1..Len(s) |-> s[Len(s) + 1 - i]]

\* comparefn(a, b) for the three sorts of mergeAnalysisResults.
Cmp(comparefn, a, b) ==
    CASE comparefn = "toc" -> TocCompare(a, b)
      [] comparefn = "pages" -> IndexPageCompare(a, b)
      [] comparefn = "index" -> IndexCompare(a, b)

ArraySort(arr, comparefn) ==
    LET n == Len(arr)
        isDescending == Cmp(comparefn, arr[2], arr[1]) < 0
        RECURSIVE CountRun(_)
        \* idx: 0-based index of the next element to look at
        CountRun(idx) ==
            IF idx >= n THEN idx
            ELSE LET order == Cmp(comparefn, arr[idx + 1], arr[idx])
                 IN  IF isDescending
                     THEN IF order >= 0 THEN idx ELSE CountRun(idx + 1)
                     ELSE IF order < 0 THEN idx ELSE CountRun(idx + 1)
        runLength == CountRun(2)
        afterRun == IF isDescending
                    THEN Reverse(SubSeq(arr, 1, runLength)) \o SubSeq(arr, runLength + 1, n)
                    ELSE arr
        RECURSIVE Search(_, _, _, _)
        Search(a, pivot, left, right) ==
            IF left >= right THEN left
            ELSE LET mid == left + ((right - left) \div 2)
                 IN  IF Cmp(comparefn, pivot, a[mid + 1]) < 0
                     THEN Search(a, pivot, left, mid)
                     ELSE Search(a, pivot, mid + 1, right)
        RECURSIVE BinaryInsertionSort(_, _)
        BinaryInsertionSort(a, start) ==
            IF start >= n THEN a
            ELSE LET pivot == a[start + 1]
                     left == Search(a, pivot, 0, start)
                 IN  BinaryInsertionSort(
                         SubSeq(a, 1, left) \o <<pivot>> \o SubSeq(a, left + 1, start)
                             \o SubSeq(a, start + 2, n),
                         start + 1)
    IN  IF n < 2 THEN arr ELSE BinaryInsertionSort(afterRun, runLength)

-----------------------------------------------------------------------------
(* mergeAnalysisResults: the three sorts and the result *)

MergeToc(rs) == ArraySort(TocMapValues(FlatToc(rs), <<>>), "toc")

SortedPages(pageSet) == ArraySort(pageSet, "pages")

\* The record of one term as an IndexEntry; its page numbers are strings.
ToIndexEntry(record) ==
    [term |-> BestTerm(record.termVariants),
     pageNumbers |-> [i \in 1..Len(record.pageNumbers) |->
                        Str(SortedPages(record.pageNumbers)[i])]]

\* The Map of the index after the forEach.
IndexMapOf(rs) == BuildIndexMap(FlatIndex(rs), <<>>)

MergeIndex(rs) ==
    LET indexMap == IndexMapOf(rs)
    IN  ArraySort([i \in 1..Len(indexMap) |-> ToIndexEntry(indexMap[i])], "index")

mergeAnalysisResults(rs) == [toc |-> MergeToc(rs), index |-> MergeIndex(rs)]

-----------------------------------------------------------------------------
(* The batches the extraction service answers with *)

\* The most chunks a file is cut into.
MaxChunks == 3

TocEntry(title, level, pageNumber) ==
    [title |-> title, level |-> level, pageNumber |-> pageNumber]

IndexEntry(term, pageNumbers) == [term |-> term, pageNumbers |-> pageNumbers]

Batch(toc, index) == [toc |-> toc, index |-> index]

EmptyBatch == Batch(<<>>, <<>>)

Page2 == Str(<<"P","a","g","e"," ","2">>)

Page10 == Str(<<"P","a","g","e"," ","1","0">>)

T1 == TocEntry(<<"C","h">>, 1, Num(5))
T2 == TocEntry(<<" ","c","h">>, 1, Str(<<"4","0">>))
T3 == TocEntry(<<"E","x">>, 2, Str(<<"1","0">>))
T4 == TocEntry(<<"E","x">>, 2, Str(<<"2","0">>))
T5 == TocEntry(<<"C","h">>, 2, Str(<<"A","p","p">>))
T6 == TocEntry(<<"I","n">>, 1, Page2)
T7 == TocEntry(<<"I","x">>, 1, Str(<<"0","5">>))
T8 == TocEntry(<<"e","x"," ">>, 2, Num(10))

TocEntries == {T1, T2, T3, T4, T5, T6, T7, T8}

I1 == IndexEntry(<<"d","n","a">>, <<Str(<<"2">>)>>)
I2 == IndexEntry(<<"D","N","A">>, <<Str(<<"1","0">>)>>)
I3 == IndexEntry(<<" ","D","n","a"," ">>, <<Num(2)>>)
I4 == IndexEntry(<<"c","e","l","l">>, <<Page10>>)
I5 == IndexEntry(<<"C","e","l","l">>, <<Page2>>)
I6 == IndexEntry(<<" "," ">>, <<Str(<<"7">>)>>)
I7 == IndexEntry(<<"c","e","l","l">>, <<Str(<<"(","a",")">>), Str(<<"3">>)>>)
I8 == IndexEntry(<<"A","b">>, <<Str(<<"1","2","-","1","4">>), Str(<<"2">>)>>)

IndexEntries == {I1, I2, I3, I4, I5, I6, I7, I8}

\* Batches with a table of contents only.
TocBatches ==
    {EmptyBatch} \cup {Batch(<<e>>, <<>>) : e \in TocEntries}
        \cup {Batch(<<T1, T2>>, <<>>), Batch(<<T3, T5, T6>>, <<>>)}

\* Batches with an index only.
IndexBatches ==
    {EmptyBatch} \cup {Batch(<<>>, <<e>>) : e \in IndexEntries}
        \cup {Batch(<<>>, <<I1, I1, I1>>), Batch(<<>>, <<I2, I2, I2, I2, I2>>)}

Intro1 == TocEntry(<<"I","n","t","r","o">>, 1, Str(<<"1">>))

Intro12 == TocEntry(<<"I","n","t","r","o">>, 1, Str(<<"1","2">>))

Cell1 == IndexEntry(<<"C","e","l","l">>, <<Str(<<"1">>)>>)

cell12 == IndexEntry(<<"c","e","l","l">>, <<Str(<<"1","2">>)>>)

\* Batches with both parts.
MixedBatches ==
    {Batch(<<Intro1>>, <<Cell1>>), Batch(<<Intro12>>, <<cell12>>),
     Batch(<<T6, T1>>, <<I7, I3>>), Batch(<<T5>>, <<I5, I4>>),
     Batch(<<T7, T3>>, <<I1, I2>>), Batch(<<T2, T8, T4>>, <<I6, I8, I1>>),
     Batch(<<T3, T5, T6>>, <<I2, I2>>), Batch(<<T4>>, <<I5>>)}

AllBatches ==
    MixedBatches \cup
        {EmptyBatch, Batch(<<T1, T2>>, <<>>), Batch(<<>>, <<I4>>), Batch(<<>>, <<I3, I7>>)}

-----------------------------------------------------------------------------
(* The composite PDF: src/components/ResultsView.tsx, generateCompositePdf. *)
(* Lengths are in thousandths of a point, which makes 595.28 and 841.89    *)
(* integers; a glyph width of the font metrics (thousandths of the font    *)
(* size) times the font size is a length in that unit.                     *)

lineHeight == 16000

pageWidth == 595280

pageHeight == 841890

margin == 50000

contentWidth == pageWidth - (margin * 2)

colGap == 30000

colWidth == (contentWidth - colGap) \div 2

\* A character outside ASCII is written as its code point: "U+000A" is the
\* line feed, "U+2013" and "U+2014" the en and em dashes, "U+201C" and
\* "U+201D" the double quotation marks, "U+2019" the right single quotation
\* mark, and "U+03A9" the Greek capital omega.

\* Printable ASCII besides the letters, the digits, the space and PunctChars.
OtherChars == <<",", ".", "'", "\"">>

\* [\x20-\x7E]
IsPrintableAscii(c) ==
    \/ IsSpace(c)
    \/ IsIn(c, LowerChars)
    \/ IsIn(c, UpperChars)
    \/ IsDigit(c)
    \/ IsIn(c, PunctChars)
    \/ IsIn(c, OtherChars)

\* .replace(/[\n\r]+/g, ' '): a run of line breaks becomes one space (the
\* last line break of a run is replaced, the others are dropped).
ReplaceLineBreaks(s) ==
    LET EndsRun(i) == s[i] # "U+000A" \/ i = Len(s) \/ s[i + 1] # "U+000A"
        kept == SelectSeq([i \in 1..Len(s) |-> i], EndsRun)
    IN  [k \in 1..Len(kept) |-> IF s[kept[k]] = "U+000A" THEN " " ELSE s[kept[k]]]

\* The three replacements of typographic characters.
ReplaceTypographic(c) ==
    IF c \in {"U+2013", "U+2014"} THEN "-"
    ELSE IF c \in {"U+201C", "U+201D"} THEN "\""
    ELSE IF c = "U+2019" THEN "'"
    ELSE c

sanitize(text) ==
    LET spaced == ReplaceLineBreaks(text)
        ascii == [i \in 1..Len(spaced) |-> ReplaceTypographic(spaced[i])]
    IN  SelectSeq(ascii, IsPrintableAscii)

\* s.split(' '): the pieces between the spaces, empty pieces included.
split(s) ==
    LET IsSpaceAt(i) == IsSpace(s[i])
        spaces == SelectSeq([i \in 1..Len(s) |-> i], IsSpaceAt)
        cuts == <<0>> \o spaces \o <<Len(s) + 1>>
    IN  [k \in 1..(Len(spaces) + 1) |-> SubSeq(s, cuts[k] + 1, cuts[k + 1] - 1)]

\* The advance width of a glyph of Helvetica ("regular") or Helvetica-Bold
\* ("bold") in thousandths of the font size, one width for each class of
\* characters: that of the space, of the hyphen, of the digits, of "a" and
\* of "A" in the font's metrics.
GlyphWidth(c, fontToUse) ==
    IF c \in {" ", ",", "."} THEN 278
    ELSE IF c \in {"-", "(", ")", "'", "\""} THEN 333
    ELSE IF IsIn(c, UpperChars) THEN IF fontToUse = "bold" THEN 722 ELSE 667
    ELSE 556

\* The sum of the widths of the glyphs of text from position from to
\* position to.
RECURSIVE WidthOfGlyphs(_, _, _, _, _)
WidthOfGlyphs(text, from, to, fontToUse, size) ==
    IF from > to THEN 0
    ELSE IF from = to THEN GlyphWidth(text[from], fontToUse) * size
    ELSE LET mid == (from + to) \div 2
         IN  WidthOfGlyphs(text, from, mid, fontToUse, size)
                + WidthOfGlyphs(text, mid + 1, to, fontToUse, size)

\* fontToUse.widthOfTextAtSize(text, size)
widthOfTextAtSize(text, fontToUse, size) ==
    WidthOfGlyphs(text, 1, Len(text), fontToUse, size)

\* The loop of wrapText over the words after the first.
RECURSIVE WrapWords(_, _, _, _, _, _)
WrapWords(words, currentLine, lines, maxWidth, fontToUse, size) ==
    IF words = <<>>
    THEN IF currentLine # <<>> THEN Append(lines, currentLine) ELSE lines
    ELSE LET word == Head(words)
             joined == currentLine \o <<" ">> \o word
         IN  IF widthOfTextAtSize(joined, fontToUse, size) < maxWidth
             THEN WrapWords(Tail(words), joined, lines, maxWidth, fontToUse, size)
             ELSE WrapWords(Tail(words), word, Append(lines, currentLine),
                            maxWidth, fontToUse, size)

wrapText(text, maxWidth, fontToUse, size) ==
    LET words == split(sanitize(text))
    IN  WrapWords(Tail(words), Head(words), <<>>, maxWidth, fontToUse, size)

\* Level 1 is bold, size 12; the other levels are regular, size 10.
EntryFont(level) == IF level = 1 THEN "bold" ELSE "regular"

EntrySize(level) == IF level = 1 THEN 12 ELSE 10

Indent(level) == (level - 1) * 15000

\* A simulation that turns the page at the lower edge of the page.
RECURSIVE MeasureLinesToEdge(_, _)
MeasureLinesToEdge(n, m) ==
    IF n = 0 THEN m
    ELSE LET at == IF m.cursorY < 0
                   THEN [pages |-> m.pages + 1, cursorY |-> pageHeight - margin]
                   ELSE m
         IN  MeasureLinesToEdge(n - 1, [at EXCEPT !.cursorY = @ - lineHeight])

\* Step 1, the simulation that counts the pages of the outline: the turn of
\* lines.forEach for each of n lines.
RECURSIVE MeasureLines(_, _)
MeasureLines(n, m) ==
    IF n = 0 THEN m
    ELSE LET at == IF m.cursorY < margin
                   THEN [pages |-> m.pages + 1, cursorY |-> pageHeight - margin]
                   ELSE m
         IN  MeasureLines(n - 1, [at EXCEPT !.cursorY = @ - lineHeight])

\* One turn of data.toc.forEach of step 1.
MeasureEntry(entry, m) ==
    LET availableWidth == contentWidth - Indent(entry.level) - 40000
        lines == wrapText(entry.title, availableWidth,
                          EntryFont(entry.level), EntrySize(entry.level))
        after == MeasureLines(Len(lines), m)
    IN  [after EXCEPT !.cursorY = @ - 4000]

\* data.toc.forEach of step 1, for the entries from..to in their order: the
\* turns of the first half have run, and their state is a value, when those
\* of the second half start.
RECURSIVE MeasureEntries(_, _, _, _)
MeasureEntries(toc, from, to, m) ==
    IF from > to THEN m
    ELSE IF from = to THEN MeasureEntry(toc[from], m)
    ELSE LET mid == (from + to) \div 2
             half == MeasureEntries(toc, from, mid, m)
         IN  CASE half.pages \in Nat -> MeasureEntries(toc, mid + 1, to, half)

\* A count that starts at no page.
MeasureTocFromZero(toc) ==
    MeasureEntries(toc, 1, Len(toc),
                   [pages |-> 0, cursorY |-> pageHeight - margin - 60000]).pages

\* tocPageCount as step 1 computes it.
MeasureToc(toc) ==
    MeasureEntries(toc, 1, Len(toc),
                   [pages |-> 1, cursorY |-> pageHeight - margin - 60000]).pages

\* Number.prototype.toString for an integer.
toString(n) == IF n < 0 THEN <<"-">> \o NumToString(0 - n) ELSE NumToString(n)

PageOffset(printed, tocPages) == IF printed THEN 0 ELSE tocPages

\* The page number as it is drawn, in the index and in the outline alike.
DisplayPageStr(originalPageStr, pageOffset) ==
    LET pInt == parseInt(originalPageStr)
    IN  IF ~isNaN(pInt) THEN toString(pInt[1] + pageOffset) ELSE originalPageStr

\* A resolver that returns whatever the reference says.
resolveTargetPageNoClamp(originalPageNumStr, contentStartIndex, contentEndIndex) ==
    LET p == parseInt(SelectSeq(String(originalPageNumStr), IsDigit))
    IN  IF isNaN(p) THEN contentStartIndex ELSE contentStartIndex + (p[1] - 1)

\* A resolver that sends a reference without a number to the first page of
\* the document.
resolveTargetPageNaNFirst(originalPageNumStr, contentStartIndex, contentEndIndex) ==
    LET p == parseInt(SelectSeq(String(originalPageNumStr), IsDigit))
        target == contentStartIndex + (p[1] - 1)
    IN  IF isNaN(p) THEN 0
        ELSE IF target > contentEndIndex THEN contentEndIndex
        ELSE IF target < contentStartIndex THEN contentStartIndex
        ELSE target

\* resolveTargetPage, with the two indices of its closure as parameters.
\* replace(/[^0-9]/g, '') keeps the digits of the reference, all of them.
resolveTargetPage(originalPageNumStr, contentStartIndex, contentEndIndex) ==
    LET p == parseInt(SelectSeq(String(originalPageNumStr), IsDigit))
        target == contentStartIndex + (p[1] - 1)
    IN  IF isNaN(p) THEN contentStartIndex
        ELSE IF target > contentEndIndex THEN contentEndIndex
        ELSE IF target < contentStartIndex THEN contentStartIndex
        ELSE target

\* addLink: the annotation is added unless the target is no page of newPdf.
addLink(annots, link, pageCount) ==
    IF link.target < 0 \/ link.target >= pageCount THEN annots
    ELSE Append(annots, link)

-----------------------------------------------------------------------------
(* Step 3, the index.  The locals of the step are the fields of a record   *)
(* ix: pageCount is newPdf.getPageCount() and indexPage the index in       *)
(* newPdf of the page that is drawn on; placed, numbers and links are what *)
(* has been drawn; thrown says that the step has raised an error.          *)

\* The key of the group of a term: its first letter in upper case, or '#'.
GroupKey(term) ==
    LET letter == IF term = <<>> THEN "" ELSE ToUpperChar(term[1])
    IN  IF IsIn(letter, UpperChars) THEN letter ELSE "#"

\* Object.keys(groupedIndex).sort(): by code unit, '#' before the letters.
SortedKeys(index) ==
    LET HasGroup(key) == \E i \in 1..Len(index) : GroupKey(index[i].term) = key
    IN  SelectSeq(<<"#">> \o UpperChars, HasGroup)

\* groupedIndex[letter], as positions in data.index.
GroupItems(letter, index) ==
    LET InGroup(i) == GroupKey(index[i].term) = letter
    IN  SelectSeq([i \in 1..Len(index) |-> i], InGroup)

DrawX(ix) == margin + (ix.currentCol * (colWidth + colGap))

\* An overflow that starts a new page from either column.
NextPageOnly(ix) ==
    [ix EXCEPT !.pageCount = @ + 1,
               !.indexPage = ix.pageCount,
               !.cursorY = pageHeight - margin,
               !.currentCol = 0,
               !.y0 = pageHeight - margin,
               !.y1 = pageHeight - margin,
               !.targetY = pageHeight - margin]

\* An overflow that moves to the second column and stays there.
NextColumnOnly(ix) ==
    [ix EXCEPT !.currentCol = 1, !.targetY = ix.cursorY, !.y1 = ix.cursorY]

\* The overflow branch, of a letter header and of an item alike: from
\* column 0 to column 1 of the page, from column 1 to column 0 of a new page.
NextColumnOrPage(ix) ==
    IF ix.currentCol = 0
    THEN [ix EXCEPT !.currentCol = 1, !.targetY = ix.cursorY, !.y1 = ix.cursorY]
    ELSE [ix EXCEPT !.pageCount = @ + 1,
                    !.indexPage = ix.pageCount,
                    !.cursorY = pageHeight - margin,
                    !.currentCol = 0,
                    !.y0 = pageHeight - margin,
                    !.y1 = pageHeight - margin,
                    !.targetY = pageHeight - margin]

\* One turn of pageNums.forEach: the n-th page number of item i.  The
\* local currentX is a field of ix.
DrawPageNum(ix, i, n, pageNums) ==
    LET originalPageStr == String(pageNums[n])
        displayPageStr == DisplayPageStr(originalPageStr, ix.pageOffset)
        isLast == n = Len(pageNums)
        textToDraw == IF isLast THEN displayPageStr ELSE displayPageStr \o <<",", " ">>
        textW == widthOfTextAtSize(textToDraw, "regular", 10)
        wraps == ix.currentX + textW > DrawX(ix) + colWidth
        y == IF wraps THEN ix.targetY - 11000 ELSE ix.targetY
        x == IF wraps THEN DrawX(ix) + 10000 ELSE ix.currentX
        targetIdx == resolveTargetPage(Str(originalPageStr),
                                       ix.contentStartIndex, ix.contentEndIndex)
        number == [kind |-> "index", entry |-> i, n |-> n,
                   ref |-> originalPageStr, text |-> displayPageStr,
                   page |-> ix.indexPage]
        link == [kind |-> "index", entry |-> i, n |-> n,
                 ref |-> originalPageStr, text |-> displayPageStr,
                 host |-> ix.indexPage, target |-> targetIdx]
    IN  [ix EXCEPT !.targetY = y,
                   !.currentX = x + textW,
                   !.numbers = Append(@, number),
                   !.links = addLink(@, link, ix.pageCount)]

\* pageNums.forEach, for the page numbers from..to of item i in their order.
RECURSIVE DrawPageNums(_, _, _, _, _)
DrawPageNums(ix, i, from, to, pageNums) ==
    IF from > to THEN ix
    ELSE IF from = to THEN DrawPageNum(ix, i, from, pageNums)
    ELSE LET mid == (from + to) \div 2
         IN  DrawPageNums(DrawPageNums(ix, i, from, mid, pageNums),
                          i, mid + 1, to, pageNums)

\* The overflow test of an item whose term takes the lines termLines.
ItemAt(ix, termLines) ==
    IF ix.targetY - ((Len(termLines) * 11000) + 15000) < margin
    THEN NextColumnOrPage(ix)
    ELSE ix

\* The lines of the term of item i are drawn from at.targetY down; the page
\* numbers start after the last of them.
TermDrawn(at, i, termLines) ==
    [at EXCEPT
        !.placed = Append(@, [entry |-> i, page |-> at.indexPage,
                              col |-> at.currentCol, y |-> at.targetY]),
        !.targetY = @ - (11000 * (Len(termLines) - 1)),
        !.currentX = DrawX(at)
                        + widthOfTextAtSize(termLines[Len(termLines)], "bold", 10)
                        + 8000]

\* The space after an item, and the cursor of its column.
EndItem(numbered) ==
    IF numbered.currentCol = 0
    THEN [numbered EXCEPT !.targetY = @ - 14000, !.y0 = numbered.targetY - 14000]
    ELSE [numbered EXCEPT !.targetY = @ - 14000, !.y1 = numbered.targetY - 14000]

\* An item whose term takes the lines termLines.  A term of which nothing
\* is left to draw has no last line: widthOfTextAtSize(undefined, 10)
\* raises a TypeError.
DrawTerm(ix, i, item, termLines) ==
    IF termLines = <<>> THEN [ItemAt(ix, termLines) EXCEPT !.thrown = TRUE]
    ELSE EndItem(DrawPageNums(TermDrawn(ItemAt(ix, termLines), i, termLines),
                              i, 1, Len(item.pageNumbers), item.pageNumbers))

\* One turn of groupedIndex[letter].forEach, for the item at position i of
\* data.index.
DrawItem(ix, i, index) ==
    DrawTerm(ix, i, index[i], wrapText(sanitize(index[i].term), colWidth, "bold", 10))

\* groupedIndex[letter].forEach, for the items from..to of the group in
\* their order; nothing runs after an error.
RECURSIVE DrawItems(_, _, _, _, _)
DrawItems(ix, items, from, to, index) ==
    IF from > to \/ ix.thrown THEN ix
    ELSE IF from = to THEN DrawItem(ix, items[from], index)
    ELSE LET mid == (from + to) \div 2
         IN  DrawItems(DrawItems(ix, items, from, mid, index), items, mid + 1, to, index)

\* The overflow test of a letter header, and the header.
DrawHeader(start) ==
    IF start.targetY < margin + 40000
    THEN [NextColumnOrPage(start) EXCEPT !.targetY = @ - 20000]
    ELSE [start EXCEPT !.targetY = @ - 20000]

\* The space after a group.
EndGroup(items) ==
    IF items.thrown THEN items
    ELSE IF items.currentCol = 0 THEN [items EXCEPT !.y0 = @ - 10000]
    ELSE [items EXCEPT !.y1 = @ - 10000]

\* The items of a group, which are at the positions group of data.index.
DrawGroupItems(header, group, index) == DrawItems(header, group, 1, Len(group), index)

\* One turn of sortedKeys.forEach: the letter header, which starts at the
\* cursor of the current column, the items of the group, the space after
\* the group.
DrawGroup(ix, letter, index) ==
    EndGroup(DrawGroupItems(
        DrawHeader([ix EXCEPT !.targetY = IF ix.currentCol = 0 THEN ix.y0 ELSE ix.y1]),
        GroupItems(letter, index), index))

RECURSIVE DrawGroups(_, _, _)
DrawGroups(ix, keys, index) ==
    IF keys = <<>> \/ ix.thrown THEN ix
    ELSE DrawGroups(DrawGroup(ix, Head(keys), index), Tail(keys), index)

\* Step 3 for the dataset data, after tocPages placeholders and bodyPages
\* pages of the original have been added to newPdf.
GenerateIndex(data, printed, tocPages, bodyPages) ==
    LET top == pageHeight - margin - 50000
        ix == [pageCount |-> tocPages + bodyPages + 1,
               indexPage |-> tocPages + bodyPages,
               cursorY |-> top, currentCol |-> 0, y0 |-> top, y1 |-> top,
               targetY |-> top, currentX |-> margin,
               pageOffset |-> PageOffset(printed, tocPages),
               contentStartIndex |-> tocPages,
               contentEndIndex |-> tocPages + bodyPages - 1,
               placed |-> <<>>, numbers |-> <<>>, links |-> <<>>,
               thrown |-> FALSE]
    IN  DrawGroups(ix, SortedKeys(data.index), data.index)

-----------------------------------------------------------------------------
(* Step 4, the outline on the placeholder pages.  The locals of the step   *)
(* are the fields of a record tc; currentTocPage is an index in newPdf.    *)

\* The lines drawn on the page of index tocPageIndex whatever it is.
RECURSIVE DrawTocLinesUnclipped(_, _, _, _, _)
DrawTocLinesUnclipped(tc, i, k, lines, entry) ==
    IF k > Len(lines) THEN tc
    ELSE LET turned == tc.cursorY < margin
             tocPageIndex == IF turned THEN tc.tocPageIndex + 1 ELSE tc.tocPageIndex
             fresh == turned
             currentTocPage == IF fresh THEN tocPageIndex ELSE tc.currentTocPage
             cursorY == IF fresh THEN pageHeight - margin ELSE tc.cursorY
             originalPageStr == String(entry.pageNumber)
             displayPageStr == DisplayPageStr(originalPageStr, tc.pageOffset)
             targetIdx == resolveTargetPage(Str(originalPageStr),
                                            tc.contentStartIndex, tc.contentEndIndex)
             isLast == k = Len(lines)
             line == [entry |-> i, line |-> k, page |-> currentTocPage, y |-> cursorY]
             number == [kind |-> "toc", entry |-> i, n |-> 1,
                        ref |-> originalPageStr, text |-> displayPageStr,
                        page |-> currentTocPage]
             link == [kind |-> "toc", entry |-> i, n |-> 1,
                      ref |-> originalPageStr, text |-> displayPageStr,
                      host |-> currentTocPage, target |-> targetIdx]
             drawn == [tc EXCEPT
                          !.tocPageIndex = tocPageIndex,
                          !.currentTocPage = currentTocPage,
                          !.cursorY = cursorY - lineHeight,
                          !.tocLines = Append(@, line),
                          !.numbers = IF isLast THEN Append(@, number) ELSE @,
                          !.links = IF isLast THEN addLink(@, link, tc.pageCount) ELSE @]
         IN  DrawTocLinesUnclipped(drawn, i, k + 1, lines, entry)

\* lines.forEach: the lines of entry i from the k-th on.
RECURSIVE DrawTocLines(_, _, _, _, _)
DrawTocLines(tc, i, k, lines, entry) ==
    IF k > Len(lines) THEN tc
    ELSE LET turned == tc.cursorY < margin
             tocPageIndex == IF turned THEN tc.tocPageIndex + 1 ELSE tc.tocPageIndex
             fresh == turned /\ tocPageIndex < tc.tocPages
             currentTocPage == IF fresh THEN tocPageIndex ELSE tc.currentTocPage
             cursorY == IF fresh THEN pageHeight - margin ELSE tc.cursorY
             originalPageStr == String(entry.pageNumber)
             displayPageStr == DisplayPageStr(originalPageStr, tc.pageOffset)
             targetIdx == resolveTargetPage(Str(originalPageStr),
                                            tc.contentStartIndex, tc.contentEndIndex)
             isLast == k = Len(lines)
             line == [entry |-> i, line |-> k, page |-> currentTocPage, y |-> cursorY]
             number == [kind |-> "toc", entry |-> i, n |-> 1,
                        ref |-> originalPageStr, text |-> displayPageStr,
                        page |-> currentTocPage]
             link == [kind |-> "toc", entry |-> i, n |-> 1,
                      ref |-> originalPageStr, text |-> displayPageStr,
                      host |-> currentTocPage, target |-> targetIdx]
             drawn == [tc EXCEPT
                          !.tocPageIndex = tocPageIndex,
                          !.currentTocPage = currentTocPage,
                          !.cursorY = cursorY - lineHeight,
                          !.tocLines = Append(@, line),
                          !.numbers = IF isLast THEN Append(@, number) ELSE @,
                          !.links = IF isLast THEN addLink(@, link, tc.pageCount) ELSE @]
         IN  DrawTocLines(drawn, i, k + 1, lines, entry)

\* One turn of data.toc.forEach of step 4, for the entry at position i.
DrawTocEntry(tc, i, toc) ==
    LET entry == toc[i]
        titleWidth == contentWidth - Indent(entry.level) - 30000 - 10000
        lines == wrapText(entry.title, titleWidth,
                          EntryFont(entry.level), EntrySize(entry.level))
        after == DrawTocLines(tc, i, 1, lines, entry)
    IN  [after EXCEPT !.cursorY = @ - 4000]

\* data.toc.forEach of step 4, for the entries from..to in their order: the
\* turns of the first half have run when those of the second half start.
RECURSIVE DrawTocEntries(_, _, _, _)
DrawTocEntries(tc, from, to, toc) ==
    IF from > to THEN tc
    ELSE IF from = to THEN DrawTocEntry(tc, from, toc)
    ELSE LET mid == (from + to) \div 2
             half == DrawTocEntries(tc, from, mid, toc)
         IN  CASE half.tocPageIndex \in Nat -> DrawTocEntries(half, mid + 1, to, toc)

\* Step 4 for the dataset data in a document of pageCount pages.
FillToc(data, printed, tocPages, bodyPages, pageCount) ==
    LET tc == [tocPages |-> tocPages, tocPageIndex |-> 0, currentTocPage |-> 0,
               cursorY |-> pageHeight - margin - 50000,
               pageCount |-> pageCount,
               pageOffset |-> PageOffset(printed, tocPages),
               contentStartIndex |-> tocPages,
               contentEndIndex |-> tocPages + bodyPages - 1,
               tocLines |-> <<>>, numbers |-> <<>>, links |-> <<>>]
    IN  DrawTocEntries(tc, 1, Len(data.toc), data.toc)

\* The pages of newPdf: placeholders of the outline, copies of the pages of
\* the original, pages of the index.
Page(kind, n) == [kind |-> kind, n |-> n]

Placeholders(tocPages) == [i \in 1..tocPages |-> Page("toc", i)]

\* The copies added last page first.
CopiedPagesReversed(bodyPages) == [i \in 1..bodyPages |-> Page("body", bodyPages + 1 - i)]

CopiedPages(bodyPages) == [i \in 1..bodyPages |-> Page("body", i)]

-----------------------------------------------------------------------------
(* Inputs of the composite PDF: the file that was uploaded and the batch   *)
(* the dataset of the results view was merged from.                        *)

MaxBodyPages == 14

BigIndexSize == 9

BigTocSize == 7

IMAGES_PER_CHUNK == 10

NoFile == [type |-> "null", pages |-> 0]

PdfFile(n) == [type |-> "application/pdf", pages |-> n]

\* The files of the runs: a text, and for each number of chunks a PDF that
\* gives it, with one page in its last chunk.
Files ==
    {PdfFile((IMAGES_PER_CHUNK * (k - 1)) + 1) : k \in 1..MaxChunks}
        \cup {[type |-> "text/plain", pages |-> 0]}

\* The numbers of pages of the PDF behind the results view.
BodyPageCounts == {1, 5, MaxBodyPages}

\* word, n times, with single spaces between.
RECURSIVE Words(_, _)
Words(word, n) == IF n <= 1 THEN word ELSE word \o <<" ">> \o Words(word, n - 1)

\* References of every form: numbers, text around one number, two numbers,
\* no number, a number beyond the pages of any body, a number below 1.
RefsBatch ==
    Batch(<<TocEntry(<<"I","n","t","r","o">>, 1, Str(<<"P","a","g","e"," ","5">>)),
            TocEntry(<<"C","h">>, 1, Num(3)),
            TocEntry(<<"E","x">>, 2, Str(<<"1","2","-","1","4">>)),
            TocEntry(<<"A","p","p">>, 1, Str(<<"P","r","e","f","a","c","e">>)),
            TocEntry(<<"E","n","d">>, 1, Str(<<"2","0">>))>>,
          <<IndexEntry(<<"c","e","l","l">>,
                       <<Str(<<"1","2","a">>), Str(<<"0","0","7">>),
                         Str(<<"1","2","-","1","4">>)>>),
            IndexEntry(<<"d","n","a">>, <<Num(2), Str(<<"2","0">>), Str(<<"0">>)>>),
            IndexEntry(<<"A","b">>,
                       <<Str(<<"P","r","e","f","a","c","e">>), Str(<<>>),
                         Str(<<"P","a","g","e"," ","5">>)>>)>>)

\* A title and a term of more than one line, and more page numbers than a
\* line of a column holds.
WrapBatch ==
    Batch(<<TocEntry(Words(<<"c","h","a","p","t","e","r">>, 12), 1, Num(1)),
            TocEntry(Words(<<"s","e","c","t","i","o","n">>, 24), 2, Num(2))>>,
          <<IndexEntry(Words(<<"m","e","m","b","r","a","n","e">>, 6), <<Num(4)>>),
            IndexEntry(Words(<<"z","o","o","s","p","o","r","e">>, 4),
                       <<Num(2), Num(4), Num(6), Num(8)>>)>>)

\* More index entries than the two columns of a page hold, in two groups;
\* every term takes 14 lines of a column, one for each long word.
BigIndexBatch ==
    Batch(<<>>,
          [i \in 1..BigIndexSize |->
              IndexEntry(<<IF 2 * i <= BigIndexSize + 1 THEN "a" ELSE "b">>
                             \o NumToString(100 + i) \o <<" ">>
                             \o Words(<<"e","l","e","c","t","r","o","e","n","c","e","p","h","a","l",
                                      "o","g","r","a","m","s">>, 14),
                         <<Num(i)>>)])

\* More outline lines than a page holds; every title takes nine lines,
\* one for each long word.
BigTocBatch ==
    Batch([i \in 1..BigTocSize |->
              TocEntry(<<"c">> \o NumToString(100 + i) \o <<" ">>
                           \o Words(<<"p","n","e","u","m","o","n","o","u","l","t","r","a","m","i",
                                    "c","r","o","s","c","o","p","i","c","s","i","l","i","c","o",
                                    "v","o","l","c","a","n","o","c","o","n","i","o","s","i","s">>, 9),
                       2, Num(i))],
          <<>>)

\* An outline entry without a title.
EmptyTitleBatch ==
    Batch(<<TocEntry(<<>>, 1, Str(<<"3">>)), TocEntry(<<"C","h">>, 1, Str(<<"4">>))>>,
          <<IndexEntry(<<"C","e","l","l">>, <<Str(<<"1">>)>>)>>)

\* A title and a term in Greek.
OmegaBatch ==
    Batch(<<TocEntry(<<"U+03A9">>, 1, Num(2))>>, <<IndexEntry(<<"U+03A9">>, <<Num(2)>>)>>)

\* Typographic characters and line breaks.
TypographicBatch ==
    Batch(<<TocEntry(<<"A", "U+2013", "B", "U+000A", "U+000A", "c">>, 1, Num(1))>>,
          <<IndexEntry(<<"i","t", "U+2019", "s">>, <<Num(1)>>)>>)

PdfBatches ==
    {EmptyBatch, RefsBatch, WrapBatch, BigIndexBatch, BigTocBatch, EmptyTitleBatch,
     OmegaBatch, TypographicBatch, Batch(<<T6, T1>>, <<I7, I3>>)}

-----------------------------------------------------------------------------
(* The file service and the chunking: src/unnamed/part_001.  An image or a *)
(* part of a text is its position in the file.                             *)

\* No content: handleProcess has no call of processFile behind it.
NoContent == [type |-> "none", data |-> <<>>, sourceMap |-> <<>>]

\* processFile: a PDF gives the image of each page, with the number of the
\* page in sourceMap; a text gives its parts of 10000 characters, of which
\* there are parts (a FileContent of type 'text' has no sourceMap).
processFile(file, parts) ==
    IF file.type = "application/pdf"
    THEN [type |-> "image",
          data |-> [i \in 1..file.pages |-> i],
          sourceMap |-> [i \in 1..file.pages |-> i]]
    ELSE IF file.type = "image/jpeg"
    THEN [type |-> "image", data |-> <<1>>, sourceMap |-> <<1>>]
    ELSE [type |-> "text", data |-> [i \in 1..parts |-> i], sourceMap |-> <<>>]

\* A loop that sets the start of a chunk by the number of the chunk.
RECURSIVE ImageChunksByChunk(_, _, _)
ImageChunksByChunk(fileContent, i, chunkId) ==
    LET totalImages == Len(fileContent.data)
        end == IF i + IMAGES_PER_CHUNK < totalImages THEN i + IMAGES_PER_CHUNK
               ELSE totalImages
    IN  IF i >= totalImages THEN <<>>
        ELSE <<[id |-> chunkId, type |-> "image",
                data |-> SubSeq(fileContent.data, i + 1, end),
                startPage |-> Num(chunkId),
                endPage |-> Num(fileContent.sourceMap[end])]>>
                 \o ImageChunksByChunk(fileContent, i + IMAGES_PER_CHUNK, chunkId + 1)

\* createContentChunks, the loop over the images from index i (from 0) on:
\* slice(i, i + IMAGES_PER_CHUNK), sourceMap[i] and
\* sourceMap[Math.min(i + IMAGES_PER_CHUNK, totalImages) - 1].
RECURSIVE ImageChunks(_, _, _)
ImageChunks(fileContent, i, chunkId) ==
    LET totalImages == Len(fileContent.data)
        end == IF i + IMAGES_PER_CHUNK < totalImages THEN i + IMAGES_PER_CHUNK
               ELSE totalImages
    IN  IF i >= totalImages THEN <<>>
        ELSE <<[id |-> chunkId, type |-> "image",
                data |-> SubSeq(fileContent.data, i + 1, end),
                startPage |-> Num(fileContent.sourceMap[i + 1]),
                endPage |-> Num(fileContent.sourceMap[end])]>>
                 \o ImageChunks(fileContent, i + IMAGES_PER_CHUNK, chunkId + 1)

\* A chunk of a text has no endPage.
createContentChunks(fileContent) ==
    IF fileContent.type = "image" THEN ImageChunks(fileContent, 0, 1)
    ELSE [idx \in 1..Len(fileContent.data) |->
             [id |-> idx, type |-> "text", data |-> <<fileContent.data[idx]>>,
              startPage |-> Str(<<"T","e","x","t"," ","P","a","r","t"," ">>
                                    \o NumToString(idx))]]

\* analyzeChunk: the page markers [PAGE n] put before the images of a chunk.
PageMarkers(chunk) ==
    [idx \in 1..Len(chunk.data) |->
        IF chunk.startPage.isNum THEN Num(chunk.startPage.n + (idx - 1))
        ELSE Str(<<"I","m","a","g","e"," ">> \o NumToString(idx))]

-----------------------------------------------------------------------------
(* The application: src/App.tsx *)

\* The state of the results view when it is mounted, with no call of
\* generateCompositePdf made.
NoPdf ==
    /\ isGeneratingPdf = FALSE
    /\ pc = "idle"
    /\ tocPageCount = 0
    /\ newPdf = <<>>
    /\ placed = <<>>
    /\ tocLines = <<>>
    /\ numbers = <<>>
    /\ links = <<>>
    /\ alerts = 0
    /\ downloads = 0

Init ==
    /\ view = "UPLOAD"
    /\ status = "idle"
    /\ totalUnits = 0
    /\ processedUnits = 0
    /\ partialResults = <<>>
    /\ callFailed = <<>>
    /\ results = EmptyBatch
    /\ usePrintedPageNumbers = FALSE
    /\ currentFile = NoFile
    /\ runMode = FALSE
    /\ content = NoContent
    /\ chunks = <<>>
    /\ calls = <<>>
    /\ NoPdf

\* A toggle that every view shows.
ToggleModeInAnyView ==
    /\ usePrintedPageNumbers' = ~usePrintedPageNumbers
    /\ UNCHANGED <<view, status, totalUnits, processedUnits, results, currentFile,
                   partialResults, callFailed, runVars>>
    /\ UNCHANGED pdfVars

\* The toggle of the upload view: setUsePrintedPageNumbers(e.target.checked).
ToggleMode ==
    /\ view = "UPLOAD"
    /\ usePrintedPageNumbers' = ~usePrintedPageNumbers
    /\ UNCHANGED <<view, status, totalUnits, processedUnits, results, currentFile,
                   partialResults, callFailed, runVars>>
    /\ UNCHANGED pdfVars

\* handleProcess up to the await of processFile.  The uploader of the upload
\* view takes a file unless it is loading; the callback it calls is the one
\* of the last render, with usePrintedPageNumbers as it is.
HandleProcess ==
    /\ view = "UPLOAD"
    /\ status \in {"idle", "error"}
    /\ \E file \in Files : currentFile' = file
    /\ view' = "PROCESSING"
    /\ status' = "processing"
    /\ runMode' = usePrintedPageNumbers
    /\ UNCHANGED <<totalUnits, processedUnits, partialResults, callFailed, results,
                   usePrintedPageNumbers, content, chunks, calls>>
    /\ UNCHANGED pdfVars

\* processFile throws: the catch block of handleProcess.
ProcessFileFails ==
    /\ status = "processing"
    /\ status' = "error"
    /\ UNCHANGED <<view, totalUnits, processedUnits, partialResults, callFailed,
                   results, usePrintedPageNumbers, currentFile, runVars>>
    /\ UNCHANGED pdfVars

\* processFile has returned the content of the file: the chunks are created
\* and the loop starts.
CreateChunks ==
    /\ status = "processing"
    /\ \E parts \in 1..MaxChunks :
          /\ content' = processFile(currentFile, parts)
          /\ chunks' = createContentChunks(content')
    /\ totalUnits' = Len(chunks')
    /\ processedUnits' = 0
    /\ status' = "analyzing"
    /\ partialResults' = <<>>
    /\ callFailed' = <<>>
    /\ calls' = <<>>
    /\ UNCHANGED <<view, results, usePrintedPageNumbers, currentFile, runMode>>
    /\ UNCHANGED pdfVars

\* A loop that does not await: the next call is made while one is pending.
CallAnalyzeChunkUnawaited ==
    /\ status = "analyzing"
    /\ Len(calls) < totalUnits
    /\ calls' = Append(calls, [chunk |-> chunks[Len(calls) + 1],
                               usePrintedPageNumbers |-> runMode])
    /\ UNCHANGED <<view, status, totalUnits, processedUnits, results,
                   usePrintedPageNumbers, currentFile, partialResults, callFailed,
                   runMode, content, chunks>>
    /\ UNCHANGED pdfVars

\* A turn of the loop up to its await: analyzeChunk is called with the next
\* chunk and the mode of the callback.
CallAnalyzeChunk ==
    /\ status = "analyzing"
    /\ Len(calls) = Len(partialResults)
    /\ Len(partialResults) < totalUnits
    /\ calls' = Append(calls, [chunk |-> chunks[Len(partialResults) + 1],
                               usePrintedPageNumbers |-> runMode])
    /\ UNCHANGED <<view, status, totalUnits, processedUnits, results,
                   usePrintedPageNumbers, currentFile, partialResults, callFailed,
                   runMode, content, chunks>>
    /\ UNCHANGED pdfVars

\* The rest of the turn: analyzeChunk answers with a batch, which is pushed.
AnalyzeChunk(batches) ==
    /\ status = "analyzing"
    /\ Len(calls) = Len(partialResults) + 1
    /\ Len(partialResults) < totalUnits
    /\ \E b \in batches : partialResults' = Append(partialResults, b)
    /\ callFailed' = Append(callFailed, FALSE)
    /\ processedUnits' = processedUnits + 1
    /\ UNCHANGED <<view, status, totalUnits, results, usePrintedPageNumbers,
                   currentFile, runVars>>
    /\ UNCHANGED pdfVars

\* A turn of the loop that ends the run with the error of the call.
AnalyzeChunkRethrows ==
    /\ status = "analyzing"
    /\ Len(calls) = Len(partialResults) + 1
    /\ Len(partialResults) < totalUnits
    /\ callFailed' = Append(callFailed, TRUE)
    /\ status' = "error"
    /\ UNCHANGED <<view, totalUnits, processedUnits, partialResults, results,
                   usePrintedPageNumbers, currentFile, runVars>>
    /\ UNCHANGED pdfVars

\* The rest of a turn in which the call of the model fails, answers with
\* no text or with text that JSON.parse or the mapping of the parsed value
\* rejects: analyzeChunk returns { toc: [], index: [] } from its early
\* return or its catch block, and the loop goes on as after any answer.
AnalyzeChunkFails ==
    /\ status = "analyzing"
    /\ Len(calls) = Len(partialResults) + 1
    /\ Len(partialResults) < totalUnits
    /\ partialResults' = Append(partialResults, EmptyBatch)
    /\ callFailed' = Append(callFailed, TRUE)
    /\ processedUnits' = processedUnits + 1
    /\ UNCHANGED <<view, status, totalUnits, results, usePrintedPageNumbers,
                   currentFile, runVars>>
    /\ UNCHANGED pdfVars

\* After the loop: the merge, setResults and status 'complete'.
Merge ==
    /\ status = "analyzing"
    /\ Len(partialResults) = totalUnits
    /\ results' = mergeAnalysisResults(partialResults)
    /\ status' = "complete"
    /\ UNCHANGED <<view, totalUnits, processedUnits, partialResults, callFailed,
                   usePrintedPageNumbers, currentFile, runVars>>
    /\ UNCHANGED pdfVars

\* A results view that is set when the loop starts.
ShowResultsAtOnce ==
    /\ status \in {"analyzing", "complete"}
    /\ view = "PROCESSING"
    /\ view' = "RESULTS"
    /\ UNCHANGED <<status, totalUnits, processedUnits, partialResults, callFailed,
                   results, usePrintedPageNumbers, currentFile, runVars>>
    /\ UNCHANGED pdfVars

\* setTimeout(() => setView(AppView.RESULTS), 1000)
ShowResults ==
    /\ status = "complete"
    /\ view = "PROCESSING"
    /\ view' = "RESULTS"
    /\ UNCHANGED <<status, totalUnits, processedUnits, partialResults, callFailed,
                   results, usePrintedPageNumbers, currentFile, runVars>>
    /\ UNCHANGED pdfVars

\* The Start Over button of the results view.
reset ==
    /\ view = "RESULTS"
    /\ view' = "UPLOAD"
    /\ results' = EmptyBatch
    /\ currentFile' = NoFile
    /\ status' = "idle"
    /\ totalUnits' = 0
    /\ processedUnits' = 0
    /\ partialResults' = <<>>
    /\ callFailed' = <<>>
    /\ runMode' = FALSE
    /\ content' = NoContent
    /\ chunks' = <<>>
    /\ calls' = <<>>
    /\ UNCHANGED usePrintedPageNumbers
    /\ UNCHANGED pdfVars

-----------------------------------------------------------------------------
(* The results view: src/components/ResultsView.tsx.  generateCompositePdf *)
(* is an async function: an action is the code between two awaits.         *)

\* The results view of a run whose file was a PDF of n pages, cut into
\* chunks of IMAGES_PER_CHUNK pages, of which the first gave the batch b.
InitResults ==
    /\ view = "RESULTS"
    /\ status = "complete"
    /\ \E b \in PdfBatches, n \in BodyPageCounts :
          /\ currentFile = PdfFile(n)
          /\ content = processFile(currentFile, 1)
          /\ chunks = createContentChunks(content)
          /\ partialResults = [k \in 1..Len(chunks) |-> IF k = 1 THEN b ELSE EmptyBatch]
    /\ callFailed = [k \in 1..Len(chunks) |-> FALSE]
    /\ totalUnits = Len(chunks)
    /\ processedUnits = Len(chunks)
    /\ results = mergeAnalysisResults(partialResults)
    /\ usePrintedPageNumbers \in BOOLEAN
    /\ runMode = usePrintedPageNumbers
    /\ calls = [k \in 1..Len(chunks) |->
                  [chunk |-> chunks[k], usePrintedPageNumbers |-> runMode]]
    /\ NoPdf

\* The catch block and the finally block of generateCompositePdf.
catchSilent ==
    /\ alerts' = alerts
    /\ downloads' = downloads
    /\ isGeneratingPdf' = FALSE
    /\ pc' = "failed"

\* The catch block and the finally block of generateCompositePdf: one
\* alert, and nothing is offered for download.
catch ==
    /\ alerts' = alerts + 1
    /\ downloads' = downloads
    /\ isGeneratingPdf' = FALSE
    /\ pc' = "failed"

\* The document and what is drawn on it when step 3 has ended with the
\* locals ix and step 4, if it has run, with the locals tc.
Document(ix, tc) ==
    [thrown |-> ix.thrown,
     newPdf |-> Placeholders(tocPageCount) \o CopiedPages(currentFile.pages)
                    \o [i \in 1..(ix.pageCount - tocPageCount - currentFile.pages) |->
                           Page("index", i)],
     placed |-> ix.placed,
     tocLines |-> IF ix.thrown THEN <<>> ELSE tc.tocLines,
     numbers |-> IF ix.thrown THEN ix.numbers ELSE ix.numbers \o tc.numbers,
     links |-> IF ix.thrown THEN ix.links ELSE ix.links \o tc.links]

\* Step 4 after step 3.
WithToc(ix) ==
    Document(ix, FillToc(results, usePrintedPageNumbers, tocPageCount,
                         currentFile.pages, ix.pageCount))

\* Steps 2 to 4 in the current state.
Rendered ==
    WithToc(GenerateIndex(results, usePrintedPageNumbers, tocPageCount,
                          currentFile.pages))

\* Steps 2 to 4 give the document r, with or without an error.
Compose(r, thrown) ==
    /\ r.thrown = thrown
    /\ newPdf' = r.newPdf
    /\ placed' = r.placed
    /\ tocLines' = r.tocLines
    /\ numbers' = r.numbers
    /\ links' = r.links

\* The PDF item of the export menu: downloadData('pdf') calls
\* generateCompositePdf, which runs up to its first await.
GeneratePdf ==
    /\ view = "RESULTS"
    /\ ~isGeneratingPdf
    /\ currentFile # NoFile
    /\ currentFile.type = "application/pdf"
    /\ isGeneratingPdf' = TRUE
    /\ pc' = "loading"
    /\ tocPageCount' = 0
    /\ newPdf' = <<>>
    /\ placed' = <<>>
    /\ tocLines' = <<>>
    /\ numbers' = <<>>
    /\ links' = <<>>
    /\ alerts' = 0
    /\ downloads' = 0
    /\ UNCHANGED appVars

\* Reading or loading the original, or creating the document and its fonts,
\* raises an error.
LoadFails ==
    /\ pc = "loading"
    /\ catch
    /\ UNCHANGED <<tocPageCount, newPdf, placed, tocLines, numbers, links>>
    /\ UNCHANGED appVars

\* The original is loaded and the fonts are embedded: step 1 counts the
\* pages of the outline and adds the placeholders, then copyPages is awaited.
MeasureAndAllocate ==
    /\ pc = "loading"
    /\ tocPageCount' = MeasureToc(results.toc)
    /\ newPdf' = Placeholders(tocPageCount')
    /\ pc' = "copying"
    /\ UNCHANGED <<isGeneratingPdf, placed, tocLines, numbers, links, alerts, downloads>>
    /\ UNCHANGED appVars

\* copyPages raises an error.
CopyPagesFails ==
    /\ pc = "copying"
    /\ catch
    /\ UNCHANGED <<tocPageCount, newPdf, placed, tocLines, numbers, links>>
    /\ UNCHANGED appVars

\* The pages are copied: step 2 appends them, step 3 draws the index and
\* step 4 the outline, then save is awaited.
Render ==
    /\ pc = "copying"
    /\ Compose(Rendered, FALSE)
    /\ pc' = "saving"
    /\ UNCHANGED <<isGeneratingPdf, tocPageCount, alerts, downloads>>
    /\ UNCHANGED appVars

\* The pages are copied and step 3 raises an error.
RenderThrows ==
    /\ pc = "copying"
    /\ Compose(Rendered, TRUE)
    /\ catch
    /\ UNCHANGED tocPageCount
    /\ UNCHANGED appVars

\* save raises an error.
SaveFails ==
    /\ pc = "saving"
    /\ catch
    /\ UNCHANGED <<tocPageCount, newPdf, placed, tocLines, numbers, links>>
    /\ UNCHANGED appVars

\* save returns the bytes: the blob is offered for download, then the
\* finally block runs.
Download ==
    /\ pc = "saving"
    /\ downloads' = downloads + 1
    /\ isGeneratingPdf' = FALSE
    /\ pc' = "done"
    /\ UNCHANGED <<tocPageCount, newPdf, placed, tocLines, numbers, links, alerts>>
    /\ UNCHANGED appVars

NextToc ==
    \/ HandleProcess
    \/ ProcessFileFails
    \/ CreateChunks
    \/ CallAnalyzeChunk
    \/ AnalyzeChunk(TocBatches)
    \/ AnalyzeChunkFails
    \/ Merge
    \/ ShowResults
    \/ reset

NextIndex ==
    \/ HandleProcess
    \/ ProcessFileFails
    \/ CreateChunks
    \/ CallAnalyzeChunk
    \/ AnalyzeChunk(IndexBatches)
    \/ AnalyzeChunkFails
    \/ Merge
    \/ ShowResults
    \/ reset

Next ==
    \/ HandleProcess
    \/ ProcessFileFails
    \/ CreateChunks
    \/ CallAnalyzeChunk
    \/ AnalyzeChunk(AllBatches)
    \/ AnalyzeChunkFails
    \/ Merge
    \/ ShowResults
    \/ reset

NextPdf ==
    \/ GeneratePdf
    \/ LoadFails
    \/ MeasureAndAllocate
    \/ CopyPagesFails
    \/ Render
    \/ RenderThrows
    \/ SaveFails
    \/ Download

\* The largest PDF of the files that are cut into chunks.
MaxPages == 31

\* handleProcess at its await of processFile, for a PDF of any number of
\* pages up to MaxPages or an image.
InitChunks ==
    /\ view = "PROCESSING"
    /\ status = "processing"
    /\ totalUnits = 0
    /\ processedUnits = 0
    /\ partialResults = <<>>
    /\ callFailed = <<>>
    /\ results = EmptyBatch
    /\ usePrintedPageNumbers \in BOOLEAN
    /\ currentFile \in {PdfFile(n) : n \in 1..MaxPages}
                          \cup {[type |-> "image/jpeg", pages |-> 0]}
    /\ runMode = usePrintedPageNumbers
    /\ content = NoContent
    /\ chunks = <<>>
    /\ calls = <<>>
    /\ NoPdf

\* The file is read and cut, and the chunks are sent one after the other.
NextChunks ==
    \/ ProcessFileFails
    \/ CreateChunks
    \/ CallAnalyzeChunk
    \/ AnalyzeChunkFails

\* The runs with the toggle, on two batches.
NextRun ==
    \/ ToggleMode
    \/ HandleProcess
    \/ ProcessFileFails
    \/ CreateChunks
    \/ CallAnalyzeChunk
    \/ AnalyzeChunk({Batch(<<T1, T2>>, <<>>), Batch(<<>>, <<I4>>)})
    \/ AnalyzeChunkFails
    \/ Merge
    \/ ShowResults
    \/ reset

Spec == Init /\ [][Next]_vars

\* Whatever the application can do is done at some time: the promises of
\* handleProcess settle, the timer of the results view fires, and the user
\* uses the controls that the view shows.
SpecChunks == InitChunks /\ [][NextChunks]_vars

SpecRun == Init /\ [][NextRun]_vars /\ WF_vars(NextRun)

SpecToc == Init /\ [][NextToc]_vars

SpecIndex == Init /\ [][NextIndex]_vars

SpecPdf == InitResults /\ [][NextPdf]_vars

-----------------------------------------------------------------------------
(* What the claims speak about *)

\* The merge has run on partialResults and results holds its outcome.
Merged == status = "complete"

InToc == FlatToc(partialResults)

InIndex == FlatIndex(partialResults)

\* The pair (level, trimmed and lowercased title) of an outline entry.
LevelTitle(e) == <<e.level, toLowerCase(trim(e.title))>>

\* The trimmed and lowercased term of an index entry.
TermKey(term) == toLowerCase(trim(term))

\* The input index entries of the group of an output term.
GroupOf(term) == {i \in 1..Len(InIndex) : TermKey(InIndex[i].term) = toLowerCase(term)}

\* How often the casing variant v occurs in the input.
Occurrences(v) == Cardinality({i \in 1..Len(InIndex) : trim(InIndex[i].term) = v})

\* The casing variants of the group of an output term.
VariantsOf(term) == {trim(InIndex[i].term) : i \in GroupOf(term)}

\* The most frequent casing variants of the group of an output term.
TopVariantsOf(term) ==
    {v \in VariantsOf(term) : \A w \in VariantsOf(term) : Occurrences(w) <= Occurrences(v)}

\* The stringified page references of the input entries of an output term.
InputPagesOf(term) ==
    UNION {{String(InIndex[i].pageNumbers[j]) : j \in 1..Len(InIndex[i].pageNumbers)} :
              i \in GroupOf(term)}

StartsUpper(s) == s # <<>> /\ IsIn(s[1], UpperChars)

\* C1: the merge is idempotent: merging the merged result as a single batch
\* gives the same outline and the same index, in the same order.
C1_Idempotent == Merged => mergeAnalysisResults(<<results>>) = results

\* C1 witness: a merged result with a deduplicated, reordered outline and an
\* index entry with several page numbers, which the second merge leaves alone.
C1_Witness ==
    /\ Merged
    /\ Len(results.toc) >= 2
    /\ Len(results.toc) < Len(InToc)
    /\ results.toc # SubSeq(InToc, 1, Len(results.toc))
    /\ \E i \in 1..Len(results.index) : Len(results.index[i].pageNumbers) >= 2
    /\ mergeAnalysisResults(<<results>>) = results

\* C2: the page list of every output index entry holds exactly the
\* stringified page references of the input entries of its term (trimmed,
\* case-insensitively), each once.
C2_PagesAreUnion ==
    Merged =>
        \A k \in 1..Len(results.index) :
            LET e == results.index[k]
                pages == {e.pageNumbers[i].s : i \in 1..Len(e.pageNumbers)}
            IN  /\ pages = InputPagesOf(e.term)
                /\ \A i \in 1..Len(e.pageNumbers) : ~e.pageNumbers[i].isNum
                /\ Cardinality(pages) = Len(e.pageNumbers)

\* C2 witness: an entry merged from several input entries, two of which
\* give the same page once as a number and once as a string.
C2_Witness ==
    /\ Merged
    /\ \E k \in 1..Len(results.index) :
          /\ Len(results.index[k].pageNumbers) >= 2
          /\ \E i, j \in GroupOf(results.index[k].term) :
                /\ i # j
                /\ InIndex[i].pageNumbers[1].isNum
                /\ ~InIndex[j].pageNumbers[1].isNum
                /\ String(InIndex[i].pageNumbers[1]) = String(InIndex[j].pageNumbers[1])

\* C3: the display term of every group is one of its casing variants and no
\* variant of the group occurs more often; so a variant that occurs strictly
\* more often than every other one is the display term.
C3_MajorityTerm ==
    Merged =>
        \A k \in 1..Len(results.index) :
            LET term == results.index[k].term
            IN  /\ term \in VariantsOf(term)
                /\ \A v \in VariantsOf(term) : Occurrences(v) <= Occurrences(term)

\* C3 witness: dna three times, then DNA five times: DNA is displayed.
C3_Witness ==
    /\ Merged
    /\ Len(InIndex) = 8
    /\ InIndex[1].term = <<"d","n","a">>
    /\ Occurrences(<<"d","n","a">>) = 3
    /\ Occurrences(<<"D","N","A">>) = 5
    /\ Len(results.index) = 1
    /\ results.index[1].term = <<"D","N","A">>

\* C4: when the most frequent variants of a group tie and one of them starts
\* with an upper-case character, the display term starts with an upper-case
\* character, whatever the order of the input.
C4_TieUpperCase ==
    Merged =>
        \A k \in 1..Len(results.index) :
            LET top == TopVariantsOf(results.index[k].term)
            IN  (Cardinality(top) >= 2 /\ \E v \in top : StartsUpper(v))
                    => StartsUpper(results.index[k].term)

\* C4 witness: a tie in which the lower-case variant is seen first.
C4_Witness ==
    /\ Merged
    /\ \E k \in 1..Len(results.index) :
          LET term == results.index[k].term
              top == TopVariantsOf(term)
              first == CHOOSE i \in GroupOf(term) : \A j \in GroupOf(term) : i <= j
          IN  /\ Cardinality(top) >= 2
              /\ trim(InIndex[first].term) \in top
              /\ ~StartsUpper(trim(InIndex[first].term))
              /\ StartsUpper(term)

\* C5: for every (level, normalized title) of the input the output outline
\* has exactly one entry, the first input entry with that key.
C5_FirstOccurrence ==
    Merged =>
        \A i \in 1..Len(InToc) :
            LET first == CHOOSE j \in 1..Len(InToc) :
                            /\ LevelTitle(InToc[j]) = LevelTitle(InToc[i])
                            /\ \A l \in 1..(j - 1) :
                                  LevelTitle(InToc[l]) # LevelTitle(InToc[i])
                same == {k \in 1..Len(results.toc) :
                            LevelTitle(results.toc[k]) = LevelTitle(InToc[i])}
            IN  /\ Cardinality(same) = 1
                /\ \A k \in same : results.toc[k] = InToc[first]

\* C5 witness: "Ch" of level 1 at page 5, later " ch" of level 1 at page 40:
\* one entry, at page 5.
C5_Witness ==
    /\ Merged
    /\ \E i, j \in 1..Len(InToc) :
          /\ i < j
          /\ InToc[i] = T1
          /\ InToc[j] = T2
    /\ \E k \in 1..Len(results.toc) : results.toc[k] = T1
    /\ \A k \in 1..Len(results.toc) : results.toc[k] # T2

\* The outline of the input has an entry below the top level.
HasSubLevels == \E i \in 1..Len(InToc) : InToc[i].level > 1

\* The first input position with the (level, normalized title) of position i.
FirstOf(i) ==
    CHOOSE j \in 1..Len(InToc) :
        /\ LevelTitle(InToc[j]) = LevelTitle(InToc[i])
        /\ \A l \in 1..(j - 1) : LevelTitle(InToc[l]) # LevelTitle(InToc[i])

\* Input position j repeats an earlier (level, normalized title) with a page
\* reference other than that of its first occurrence.
Recurs(j) ==
    /\ FirstOf(j) < j
    /\ String(InToc[j].pageNumber) # String(InToc[FirstOf(j)].pageNumber)

\* The output outline has the heading of input position j at j's page.
Retained(j) ==
    \E k \in 1..Len(results.toc) :
        /\ LevelTitle(results.toc[k]) = LevelTitle(InToc[j])
        /\ String(results.toc[k].pageNumber) = String(InToc[j].pageNumber)

\* C6 as claimed: when the outline has entries of level greater than 1
\* (policy b), a heading that recurs on another page is retained both times;
\* in a top-level-only outline (policy a) only the first is.
C6_BothPolicies ==
    Merged =>
        \A j \in 1..Len(InToc) :
            Recurs(j) =>
                /\ Retained(FirstOf(j))
                /\ Retained(j) <=> HasSubLevels

\* C6 as amended: policy (a) only.  Whether or not the outline has entries of
\* level greater than 1, of the entries with the same (level, normalized
\* title) and different page references only the first is retained.
C6_PolicyAOnly ==
    Merged =>
        \A j \in 1..Len(InToc) :
            Recurs(j) => Retained(FirstOf(j)) /\ ~Retained(j)

\* C6 witness: "Ex" of level 2 at page 10 and again at page 20: the entry at
\* page 20 is gone.
C6_Witness ==
    /\ Merged
    /\ HasSubLevels
    /\ \E j \in 1..Len(InToc) :
          /\ Recurs(j)
          /\ InToc[FirstOf(j)] = T3
          /\ InToc[j] = T4
          /\ Retained(FirstOf(j))
          /\ ~Retained(j)

\* The input position an output outline entry comes from.
SourceOf(k) == CHOOSE i \in 1..Len(InToc) : InToc[i] = results.toc[k] /\ FirstOf(i) = i

\* C7 as claimed: of two output outline entries whose page references both
\* have a digit run the one with the smaller number comes first, and entries
\* with equal numbers keep the order of the flattened input.
C7_SortedByPage ==
    Merged =>
        \A k, l \in 1..Len(results.toc) :
            LET numK == getPageNum(results.toc[k].pageNumber)
                numL == getPageNum(results.toc[l].pageNumber)
            IN  (k < l /\ ~isNaN(numK) /\ ~isNaN(numL)) =>
                    /\ numK[1] <= numL[1]
                    /\ numK[1] = numL[1] => SourceOf(k) < SourceOf(l)

C9_SameRuleAsOutline ==
    Merged =>
        \A k \in 1..Len(results.index) :
            LET pages == results.index[k].pageNumbers
            IN  \A i, j \in 1..Len(pages) :
                    i < j => TocPageCompare(pages[i], pages[j]) < 0

\* A page reference is numeric when parseInt reads a number from it.
IsNumericRef(p) == ~isNaN(parseInt(p.s))

\* C10 as claimed: in every page list the numeric references ascend and
\* every non-numeric reference comes after all numeric ones.
C10_NumericFirst ==
    Merged =>
        \A k \in 1..Len(results.index) :
            LET pages == results.index[k].pageNumbers
            IN  \A i, j \in 1..Len(pages) :
                    i < j =>
                        /\ (IsNumericRef(pages[i]) /\ IsNumericRef(pages[j]))
                              => parseInt(pages[i].s)[1] <= parseInt(pages[j].s)[1]
                        /\ ~(~IsNumericRef(pages[i]) /\ IsNumericRef(pages[j]))

-----------------------------------------------------------------------------
(* Claims about the composite PDF (SpecPdf) *)

\* Steps 3 and 4 have run to their end: the document is as it is saved.
Composed == pc \in {"saving", "done"}

\* The index in newPdf of the last page copied from the original.
LastBodyPage == tocPageCount + currentFile.pages - 1

IndexPageCount == Len(newPdf) - tocPageCount - currentFile.pages

HasDigit(s) == \E i \in 1..Len(s) : IsDigit(s[i])

\* The links and the drawn page numbers of the n-th reference of entry i.
LinksOf(kind, i, n) ==
    {k \in 1..Len(links) :
        links[k].kind = kind /\ links[k].entry = i /\ links[k].n = n}

NumbersOf(kind, i, n) ==
    {j \in 1..Len(numbers) :
        numbers[j].kind = kind /\ numbers[j].entry = i /\ numbers[j].n = n}

\* C11: the link of every page reference whose leading integer n (the first
\* run of digits, as in "Page 5") is between 1 and the number of body pages
\* targets the page contentStartIndex + (n - 1), also when the reference
\* has further runs of digits ("12-14" is resolved as 12).
C11_LeadingInteger ==
    Composed =>
        \A k \in 1..Len(links) :
            LET n == FirstDigitRun(links[k].ref)
            IN  (~isNaN(n) /\ n[1] >= 1 /\ n[1] <= currentFile.pages)
                    => links[k].target = tocPageCount + (n[1] - 1)

\* C12: with a body of at least one page, the target of every link is one
\* of the pages copied from the original, between contentStartIndex and the
\* last of them: the last one when the number read from the reference is
\* beyond the body, the first one when it is below 1.
C12_TargetInBody ==
    (Composed /\ currentFile.pages >= 1) =>
        \A k \in 1..Len(links) :
            LET p == parseInt(SelectSeq(links[k].ref, IsDigit))
            IN  /\ links[k].target >= tocPageCount
                /\ links[k].target <= LastBodyPage
                /\ newPdf[links[k].target + 1].kind = "body"
                /\ (~isNaN(p) /\ p[1] > currentFile.pages) => links[k].target = LastBodyPage
                /\ (~isNaN(p) /\ p[1] < 1) => links[k].target = tocPageCount

\* A reference beyond a body of several pages is linked to its last page and
\* the reference "0" to its first.
C12_Witness ==
    /\ Composed
    /\ currentFile.pages > 1
    /\ \E k \in 1..Len(links) :
          links[k].ref = <<"2","0">> /\ links[k].target = LastBodyPage
    /\ \E k \in 1..Len(links) :
          links[k].ref = <<"0">> /\ links[k].target = tocPageCount

\* C13: every page reference without a digit is linked to contentStartIndex,
\* and the composition that draws it runs to its end: each such reference
\* that is drawn has its link.
C13_NoDigitToStart ==
    Composed =>
        /\ \A k \in 1..Len(links) :
              ~HasDigit(links[k].ref) => links[k].target = tocPageCount
        /\ \A j \in 1..Len(numbers) :
              ~HasDigit(numbers[j].ref)
                  => LinksOf(numbers[j].kind, numbers[j].entry, numbers[j].n) # {}

\* "Preface" and the empty string have been drawn and linked.
C13_Witness ==
    /\ Composed
    /\ \E k \in 1..Len(links) :
          links[k].ref = <<"P","r","e","f","a","c","e">> /\ links[k].target = tocPageCount
    /\ \E k \in 1..Len(links) :
          links[k].ref = <<>> /\ links[k].target = tocPageCount

\* C14: in sequential mode the text drawn for every page reference is the
\* 1-based position in the document of the page its link targets.
C14_DisplayedIsPosition ==
    (Composed /\ ~usePrintedPageNumbers) =>
        \A k \in 1..Len(links) : links[k].text = toString(links[k].target + 1)

\* C15: in printed mode the text drawn for every page reference is the
\* page reference of the dataset, unchanged.
C15_PrintedUnchanged ==
    (Composed /\ usePrintedPageNumbers) =>
        \A j \in 1..Len(numbers) : numbers[j].text = numbers[j].ref

\* The n-th reference of entry i, ref, has one drawn number and one link,
\* on the same page, to the page the resolver gives for ref.
HasOneLink(kind, i, n, ref) ==
    /\ Cardinality(LinksOf(kind, i, n)) = 1
    /\ Cardinality(NumbersOf(kind, i, n)) = 1
    /\ \A k \in LinksOf(kind, i, n), j \in NumbersOf(kind, i, n) :
          /\ links[k].host = numbers[j].page
          /\ links[k].ref = ref
          /\ links[k].target = resolveTargetPage(Str(ref), tocPageCount, LastBodyPage)

\* C16: every page reference of every index entry and every outline entry
\* has exactly one link, on the page on which its number is drawn, to the
\* page the resolver gives for the reference of the dataset, whatever the
\* numbering mode.
C16_OneLinkPerReference ==
    Composed =>
        /\ \A i \in 1..Len(results.index) :
              \A n \in 1..Len(results.index[i].pageNumbers) :
                  HasOneLink("index", i, n, String(results.index[i].pageNumbers[n]))
        /\ \A i \in 1..Len(results.toc) :
              HasOneLink("toc", i, 1, String(results.toc[i].pageNumber))

\* C17: once step 1 has run, tocPageCount is at least 1 and the first
\* tocPageCount pages of the document are the placeholders of the outline.
C17_AtLeastOneOutlinePage ==
    pc \in {"copying", "saving", "done"} =>
        /\ tocPageCount >= 1
        /\ Len(newPdf) >= tocPageCount
        /\ \A i \in 1..tocPageCount : newPdf[i].kind = "toc"

\* The empty outline has been measured and rendered on its one page.
C17_Witness ==
    /\ Composed
    /\ results.toc = <<>>
    /\ tocPageCount = 1
    /\ newPdf[1].kind = "toc"

\* The least by which the item at position i of the index moves the cursor
\* of its column down: its term lines but the last, and the space after it.
MinAdvance(i) ==
    (11000 * (Len(wrapText(sanitize(results.index[i].term), colWidth, "bold", 10)) - 1))
        + 14000

RECURSIVE SumAdvance(_)
SumAdvance(i) == IF i = 0 THEN 0 ELSE MinAdvance(i) + SumAdvance(i - 1)

\* What the items of one column of the first index page can move its cursor
\* down by: an item is placed at y only if y - (MinAdvance + 12) >= margin,
\* and the column starts at pageHeight - margin - 50 at the highest.
ColumnRoom == (pageHeight - margin - 50000) - margin - 12000

\* The items of the index are more than the two columns of the first index
\* page can hold, none of them higher than a column.
ExceedsFirstPage ==
    /\ \A i \in 1..Len(results.index) : MinAdvance(i) <= ColumnRoom
    /\ SumAdvance(Len(results.index)) > 2 * ColumnRoom

\* C18: every entry of the index is drawn exactly once, on an index page,
\* and there are at least two index pages when the entries are more than
\* the two columns of the first one can hold.
C18_EveryEntryOnce ==
    Composed =>
        /\ Len(placed) = Len(results.index)
        /\ \A i \in 1..Len(results.index) :
              Cardinality({j \in 1..Len(placed) : placed[j].entry = i}) = 1
        /\ \A j \in 1..Len(placed) : newPdf[placed[j].page + 1].kind = "index"
        /\ ExceedsFirstPage => IndexPageCount >= 2

\* An index that fills both columns of its first page and goes on.
C18_Witness ==
    /\ Composed
    /\ ExceedsFirstPage
    /\ IndexPageCount >= 2
    /\ \E j \in 1..Len(placed) :
          placed[j].page = LastBodyPage + 1 /\ placed[j].col = 1
    /\ \E j \in 1..Len(placed) : placed[j].page = LastBodyPage + 2

\* C19: a call of generateCompositePdf that has raised an error has alerted
\* the user once and offered nothing for download, and is over; a download
\* is offered only by a call that ends without an error.
C19_SingleError ==
    /\ alerts <= 1
    /\ downloads <= 1
    /\ pc = "failed" => (alerts = 1 /\ downloads = 0 /\ ~isGeneratingPdf)
    /\ downloads = 1 => (pc = "done" /\ alerts = 0)
    /\ alerts = 1 => pc = "failed"

\* A call has failed after all its pages were drawn.
C19_Witness ==
    /\ pc = "failed"
    /\ alerts = 1
    /\ downloads = 0
    /\ placed # <<>>
    /\ tocLines # <<>>

-----------------------------------------------------------------------------
(* Claims about the analysis loop (Spec) *)

\* C20: a chunk whose extraction call fails gives the empty batch, the run
\* is never in the error state on account of a chunk, and a run that is
\* complete has a batch for every chunk and the merge of these batches as
\* its results.
C20_FailedChunkIsEmptyBatch ==
    /\ status = "error" => callFailed = <<>>
    /\ Len(callFailed) = Len(partialResults)
    /\ \A k \in 1..Len(callFailed) : callFailed[k] => partialResults[k] = EmptyBatch
    /\ status = "complete" =>
          /\ Len(partialResults) = totalUnits
          /\ results = mergeAnalysisResults(partialResults)

\* A complete run in which a chunk failed and a later one gave entries.
C20_Witness ==
    /\ status = "complete"
    /\ results # EmptyBatch
    /\ \E k \in 1..(Len(callFailed) - 1) :
          /\ callFailed[k]
          /\ ~callFailed[k + 1]
          /\ partialResults[k + 1] # EmptyBatch

-----------------------------------------------------------------------------
(* Claims about the index entries without a term (SpecIndex) *)

\* The term is empty or white space only.
IsBlank(term) == \A i \in 1..Len(term) : IsSpace(term[i])

\* The batches without their index entries of a blank term.
WithoutBlank(rs) ==
    [k \in 1..Len(rs) |->
        Batch(rs[k].toc, SelectSeq(rs[k].index, LAMBDA e : ~IsBlank(e.term)))]

\* C21: no output index entry has an empty term, and an input entry whose
\* term is empty or white space only contributes nothing: the merged index
\* is the one the batches give without these entries.
C21_BlankTermDropped ==
    Merged =>
        /\ \A k \in 1..Len(results.index) : ~IsBlank(results.index[k].term)
        /\ results.index = MergeIndex(WithoutBlank(partialResults))

\* C21 witness: a merged run with an entry of a blank term, which has a page
\* reference of its own, among entries that are kept.
C21_Witness ==
    /\ Merged
    /\ results.index # <<>>
    /\ \E i \in 1..Len(InIndex) :
          /\ IsBlank(InIndex[i].term)
          /\ InIndex[i].pageNumbers # <<>>
          /\ \A k \in 1..Len(results.index) :
                \A j \in 1..Len(results.index[k].pageNumbers) :
                    String(results.index[k].pageNumbers[j]) # String(InIndex[i].pageNumbers[1])

-----------------------------------------------------------------------------
(* Claims about the pages of the composite PDF (SpecPdf) *)

\* C22: in the document that is saved the first tocPageCount pages are the
\* placeholders of the outline, page i of the original (from 0) is at index
\* tocPageCount + i, the pages of the index come after the last of them and
\* hold the index entries, and contentStartIndex is tocPageCount: the link
\* of a reference read as p, a page of the body, goes to the copy of page p.
C22_PageLayout ==
    Composed =>
        /\ Len(newPdf) >= tocPageCount + currentFile.pages + 1
        /\ \A i \in 1..tocPageCount : newPdf[i] = Page("toc", i)
        /\ \A i \in 0..(currentFile.pages - 1) :
              newPdf[tocPageCount + i + 1] = Page("body", i + 1)
        /\ \A i \in (tocPageCount + currentFile.pages + 1)..Len(newPdf) :
              newPdf[i].kind = "index"
        /\ \A k \in 1..Len(placed) :
              /\ placed[k].page > LastBodyPage
              /\ newPdf[placed[k].page + 1].kind = "index"
        /\ \A k \in 1..Len(links) :
              LET read == parseInt(SelectSeq(links[k].ref, IsDigit))
              IN  (~isNaN(read) /\ read[1] >= 1 /\ read[1] <= currentFile.pages)
                      => newPdf[links[k].target + 1] = Page("body", read[1])

\* C22 witness: a saved document of two or more outline pages, five or more
\* body pages and two or more index pages, with a link to a body page
\* other than the first.
C22_Witness ==
    /\ Composed
    /\ tocPageCount >= 2
    /\ currentFile.pages >= 5
    /\ \E k \in 1..Len(links) : links[k].target > tocPageCount
    /\ newPdf[tocPageCount + 1] = Page("body", 1)
    /\ newPdf[LastBodyPage + 2].kind = "index"

\* Step 4 in a document that has one placeholder page less than step 1
\* has counted.
ShortToc ==
    FillToc(results, usePrintedPageNumbers, tocPageCount - 1, currentFile.pages,
            Len(newPdf) - 1)

\* The links of the outline.
TocLinks == SelectSeq(links, LAMBDA l : l.kind = "toc")

\* C23: step 4 adds no page: every line, page number and link of the
\* outline is on a placeholder page, and every page after the first page of
\* the index is one that step 3 added for an entry.  With fewer placeholder
\* pages than the lines need, all lines are still drawn, the last ones on
\* the last placeholder page, and every link goes to the same page of the
\* body.
C23_OutlineAddsNoPage ==
    Composed =>
        /\ \A k \in 1..Len(tocLines) :
              /\ tocLines[k].page \in 0..(tocPageCount - 1)
              /\ newPdf[tocLines[k].page + 1].kind = "toc"
        /\ \A k \in 1..Len(TocLinks) : TocLinks[k].host \in 0..(tocPageCount - 1)
        /\ \A p \in (LastBodyPage + 2)..(Len(newPdf) - 1) :
              \E k \in 1..Len(placed) : placed[k].page = p
        /\ tocPageCount >= 2 =>
              /\ Len(ShortToc.tocLines) = Len(tocLines)
              /\ \A k \in 1..Len(ShortToc.tocLines) :
                    ShortToc.tocLines[k].page \in 0..(tocPageCount - 2)
              /\ Len(ShortToc.links) = Len(TocLinks)
              /\ \A k \in 1..Len(ShortToc.links) :
                    /\ ShortToc.links[k].host \in 0..(tocPageCount - 2)
                    /\ ShortToc.links[k].target + 1 = TocLinks[k].target

\* C23 witness: an outline of two pages with lines and links on both, of
\* which the lines of the second are drawn below the margin of the first
\* when only one page is there.
C23_Witness ==
    /\ Composed
    /\ tocPageCount = 2
    /\ \E k \in 1..Len(tocLines) : tocLines[k].page = 1
    /\ \E k \in 1..Len(TocLinks) : TocLinks[k].host = 1
    /\ \E k \in 1..Len(ShortToc.tocLines) :
          /\ ShortToc.tocLines[k].page = 0
          /\ ShortToc.tocLines[k].y < margin
          /\ tocLines[k].page = 1

\* The height step 3 estimates for the item at position i of the index.
TotalH(i) == MinAdvance(i) + 12000

\* The top of the columns of an index page: below the header 'Index' on
\* the first one.
ColumnTop(page) ==
    IF page = LastBodyPage + 1 THEN pageHeight - margin - 50000 ELSE pageHeight - margin

\* The entries drawn k-th and next are of one letter group.
SameGroup(k) ==
    GroupKey(results.index[placed[k].entry].term)
        = GroupKey(results.index[placed[k + 1].entry].term)

\* C24: every entry is drawn in column 0 or 1; from one entry to the next
\* the position stays, or moves from column 0 to column 1 of the page, or
\* from column 1 to column 0 of the next page, which is new (between two
\* groups the header may have taken the step to column 1 before); an entry
\* that stays in the column of the one before it fits above the margin, and
\* one that moves starts at the top of its column.
C24_ColumnFlow ==
    \A k \in 1..Len(placed) :
        /\ placed[k].col \in {0, 1}
        /\ placed[k].page \in (LastBodyPage + 1)..(Len(newPdf) - 1)
        /\ k < Len(placed) =>
              LET a == placed[k]
                  b == placed[k + 1]
                  stays == b.page = a.page /\ b.col = a.col
              IN  /\ \/ stays
                     \/ b.page = a.page /\ a.col = 0 /\ b.col = 1
                     \/ b.page = a.page + 1 /\ b.col = 0 /\ (a.col = 1 \/ ~SameGroup(k))
                  /\ stays => b.y - TotalH(b.entry) >= margin
                  /\ (~stays /\ SameGroup(k)) => b.y = ColumnTop(b.page)

\* C24 witness: within a group, an entry that moves to column 1 of the page
\* and a later one that moves to column 0 of a new page.
C24_Witness ==
    /\ Composed
    /\ \E k \in 1..(Len(placed) - 1) :
          /\ SameGroup(k)
          /\ placed[k + 1].page = placed[k].page
          /\ placed[k].col = 0
          /\ placed[k + 1].col = 1
    /\ \E k \in 1..(Len(placed) - 1) :
          /\ SameGroup(k)
          /\ placed[k + 1].page = placed[k].page + 1
          /\ placed[k].col = 1
          /\ placed[k + 1].col = 0
          /\ placed[k + 1].page = Len(newPdf) - 1

\* The page, from 0, that the simulation of step 1 is on when it has
\* counted line k of the outline entry at position i.
MeasuredPage(i, k) ==
    MeasureLines(k, MeasureEntries(results.toc, 1, i - 1,
                                   [pages |-> 1,
                                    cursorY |-> pageHeight - margin - 60000])).pages - 1

\* C27: step 4 wraps every title as step 1 does, and at every line the
\* simulation of step 1 is on the page step 4 draws the line on or on a
\* later one; so step 4 stays on the tocPageCount pages and draws no line
\* below the margin, which it does only in the branch that clips.
C27_MeasureCoversRender ==
    Composed =>
        \A j \in 1..Len(tocLines) :
            /\ tocLines[j].page <= MeasuredPage(tocLines[j].entry, tocLines[j].line)
            /\ MeasuredPage(tocLines[j].entry, tocLines[j].line) < tocPageCount
            /\ tocLines[j].page < tocPageCount
            /\ tocLines[j].y >= margin

\* C27 witness: a line near the end of the first page that step 1 counts on
\* the second page and step 4 still draws on the first, and lines that
\* both have on the second page.
C27_Witness ==
    /\ Composed
    /\ tocPageCount >= 2
    /\ \E j \in 1..Len(tocLines) :
          /\ tocLines[j].page = 0
          /\ MeasuredPage(tocLines[j].entry, tocLines[j].line) = 1
    /\ \E j \in 1..Len(tocLines) :
          /\ tocLines[j].page = 1
          /\ MeasuredPage(tocLines[j].entry, tocLines[j].line) = 1

(***************************************************************************)
(* Claims about the loop of handleProcess (Spec)                           *)
(***************************************************************************)

\* C25: handleProcess analyses the chunks one at a time in chunk order: at
\* most one call of analyzeChunk is pending, the k-th call is for the k-th
\* chunk and is made only when the calls before it have returned, and the
\* merge is made once all chunks have returned, from one batch for each
\* chunk in chunk order.
C25_OneChunkAtATime ==
    /\ Len(calls) - Len(partialResults) \in {0, 1}
    /\ Len(calls) <= Len(chunks)
    /\ \A k \in 1..Len(calls) : calls[k].chunk = chunks[k] /\ calls[k].chunk.id = k
    /\ status \in {"merging", "complete"} =>
          /\ Len(calls) = Len(chunks)
          /\ Len(partialResults) = Len(chunks)
          /\ Len(callFailed) = Len(chunks)
          /\ results = mergeAnalysisResults(partialResults)

C25_Witness ==
    /\ status = "complete"
    /\ Len(chunks) = MaxChunks
    /\ Len(calls) = MaxChunks
    /\ \E k \in 1..Len(partialResults) : partialResults[k] # EmptyBatch

(***************************************************************************)
(* Claims about the numbering mode of a run (SpecRun)                      *)
(***************************************************************************)

\* C26: the numbering mode is fixed for a whole run: every call of
\* analyzeChunk of a run gets the same mode, and from the start of
\* processing to the results view, where ResultsView gets the mode for the
\* export, usePrintedPageNumbers is the mode of the calls.
C26_ModeFixedForRun ==
    /\ \A k \in 1..Len(calls) : calls[k].usePrintedPageNumbers = runMode
    /\ view \in {"PROCESSING", "RESULTS"} => usePrintedPageNumbers = runMode

C26_Witness ==
    /\ view = "RESULTS"
    /\ usePrintedPageNumbers
    /\ Len(calls) >= 2
    /\ \A k \in 1..Len(calls) : calls[k].usePrintedPageNumbers

(***************************************************************************)
(* Claims about the end of a run (SpecRun)                                 *)
(***************************************************************************)

\* The uploader of the upload view takes a file: isLoading is false.
UploaderEnabled == view = "UPLOAD" /\ status \in {"idle", "error"}

\* C28: after a run has ended with the status 'error' a new run can be
\* started: when the application does all it can and the user uses the
\* controls that are shown, the upload view with an enabled uploader comes
\* again.
C28_NewRunAfterError == (status = "error") ~> UploaderEnabled

(***************************************************************************)
(* Claims about the chunks of the page images (SpecChunks)                 *)
(***************************************************************************)

RECURSIVE Concat(_)
Concat(seqs) ==
    IF seqs = <<>> THEN <<>> ELSE Head(seqs) \o Concat(Tail(seqs))

\* C29: createContentChunks cuts the page images without loss or
\* reordering: every chunk has from 1 to 10 images, the data of the chunks
\* put together in chunk order are the images of the file, the ids are
\* 1, 2, 3, ... and the page marker of every image (startPage plus its
\* position in the chunk) is the page number that sourceMap has for it.
C29_ChunksPartition ==
    content.type = "image" =>
        /\ \A k \in 1..Len(chunks) :
              /\ Len(chunks[k].data) \in 1..10
              /\ chunks[k].id = k
        /\ Concat([k \in 1..Len(chunks) |-> chunks[k].data]) = content.data
        /\ Concat([k \in 1..Len(chunks) |-> PageMarkers(chunks[k])])
              = [i \in 1..Len(content.data) |-> Num(content.sourceMap[i])]
        /\ \A k \in 1..Len(calls) :
              \A idx \in 1..Len(calls[k].chunk.data) :
                  PageMarkers(calls[k].chunk)[idx]
                      = Num(content.sourceMap[calls[k].chunk.data[idx]])

C29_Witness ==
    /\ content.type = "image"
    /\ Len(chunks) >= 3
    /\ Len(chunks[1].data) = 10
    /\ Len(chunks[Len(chunks)].data) < 10
    /\ Len(calls) = Len(chunks)
    /\ PageMarkers(calls[3].chunk)[1] = Num(21)

(***************************************************************************)
(* Claims about the progress of a run (Spec)                               *)
(***************************************************************************)

\* The place of a status in the order of a run.
StatusRank(s) ==
    CASE s = "idle" -> 0
      [] s = "processing" -> 1
      [] s = "analyzing" -> 2
      [] s = "merging" -> 3
      [] s = "complete" -> 4
      [] s = "error" -> 5

ProgressInBounds ==
    /\ processedUnits \in 0..totalUnits
    /\ view = "RESULTS" =>
          /\ status = "complete"
          /\ results = mergeAnalysisResults(partialResults)

\* A step of a run: every step but the one of Start Over, which ends it.
ProgressStep ==
    /\ (status' # status /\ ~(view = "RESULTS" /\ view' = "UPLOAD")) =>
          /\ StatusRank(status') > StatusRank(status)
          /\ status # "error"
    /\ (status = "analyzing" /\ status' \in {"merging", "complete"}) =>
          /\ processedUnits = totalUnits
          /\ processedUnits' = totalUnits'
          /\ Len(partialResults) = totalUnits
    /\ (view # "RESULTS" /\ view' = "RESULTS") =>
          /\ status = "complete"
          /\ status' = "complete"
          /\ results = mergeAnalysisResults(partialResults)
          /\ results' = results

\* C30: in every state 0 <= processedUnits <= totalUnits; within a run the
\* status only moves forward along idle, processing, analyzing, merging,
\* complete, or to error; processedUnits is totalUnits when the status
\* leaves analyzing for the merge; and the view becomes RESULTS only when
\* the status is complete and results are the merged batches of the run.
C30_RunProgress == [] ProgressInBounds /\ [][ProgressStep]_vars

C30_Witness ==
    /\ view = "RESULTS"
    /\ status = "complete"
    /\ totalUnits = MaxChunks
    /\ processedUnits = totalUnits
    /\ results # EmptyBatch

====
